---- MODULE Spec2Model ----
(***************************************************************************)
(* Remote tool correlation bridge of proxycast: TerminalTool                *)
(* (agent/tools/terminal.rs) and TermScrollbackTool                         *)
(* (agent/tools/term_scrollback.rs).                                        *)
(*                                                                          *)
(* Time is a global clock `now` in seconds that advances in steps of        *)
(* TickSecs.  Every critical section of the code (one lock acquisition) is  *)
(* one atomic step; a task may be preempted between two of them and at its  *)
(* await point.                                                             *)
(***************************************************************************)
EXTENDS Integers, Sequences, FiniteSets, TLC

\* ---------------------------------------------------------------- bounds
NumTasks == 2
MaxCalls == 2
TickSecs == 15
MaxTime == 30

\* ------------------------------------------------------ program constants
DUPLICATE_DETECTION_WINDOW_SECS == 30
MAX_HISTORY_LEN == 100

Tasks == 1..NumTasks
Serials == 1..MaxCalls
Commands == {"c1", "c2"}
\* The values of the `timeout` argument of TerminalTool::execute that are tried.
TimeoutInputs == {TickSecs}
NoId == 0

VARIABLES
  now,                \* the monotonic clock (std::time::Instant::now)
  uuid_count,         \* number of uuids generated so far
  pending_commands,   \* TerminalTool.pending_commands: request id -> channel
  executed_commands,  \* TerminalTool.executed_commands
  app_handle,         \* TerminalTool.app_handle is Some
  pending_requests,   \* TermScrollbackTool.pending_requests: request id -> channel
  sb_app_handle,      \* TermScrollbackTool.app_handle is Some
  chan,               \* the oneshot channels, by creation serial
  emitted,            \* request ids of the request events emitted to the frontend
  pc,                 \* per task: position inside the execute it is running
  command,            \* per task: the `command` argument
  timeout_secs,       \* per task: the `timeout` argument
  check_now,          \* per task: `now` captured by check_duplicate_command
  request_id,         \* per task: request_id of execute_command
  rx,                 \* per task: serial of the channel whose receiver it holds
  deadline,           \* per task: expiry of timeout(timeout_duration, response_rx)
  response,           \* per task: the response execute_command returned, if any
  result,             \* per task: what the last call of execute returned
  hr_log,             \* the last warn! line a handle_response logged, without its id
  sends,              \* per request id: successful response_tx.send calls
  registered,         \* per request id: inserts into the pending table
  removed,            \* per request id: removes that found an entry
  last_success,       \* per command: when its last successful execution was recorded
  pushed,             \* number of records pushed to executed_commands so far
  msg_history,        \* validate_tool_message_pairs: the `history` argument
  msg_index,          \* validate_tool_message_pairs: messages of history handled so far
  validated_messages, \* validate_tool_message_pairs: `validated_messages`
  pending_tool_calls, \* validate_tool_message_pairs: `pending_tool_calls` (id -> has a result)
  iterated,           \* validate_tool_message_pairs: entries the final loop has visited
  repair_pc,          \* validate_tool_message_pairs: position
  request,            \* build_messages_from_history: `messages`, the AnthropicMessages built
  repair_pass,        \* 1 for the call on a history, 2 for the call on the output of that call
  first_output,       \* what the call on the history returned
  turn_kind,          \* the entry point called: chat_stream or chat_stream_continue
  vendor,             \* what the vendor does with the POST: transport failure, or status and body
  byte_stream,        \* the bytes of the response body of a 2xx response
  read_pos,           \* bytes of byte_stream delivered by stream.next() so far
  buffer,             \* process_stream: `buffer`
  parser,             \* process_stream: `parser` (AnthropicSSEParser)
  outbox,             \* process_stream: the events of the current frame still to send
  is_done,            \* process_stream: result.is_done of the current frame
  sink_open,          \* the Receiver of `tx` is alive
  events,             \* the StreamEvents the sink received, in order
  posts,              \* number of HTTP POSTs issued
  outcome,            \* what the entry point returned
  turn_pc,            \* chat_stream / process_stream: position
  decoded,            \* all the text pushed to `buffer` so far
  parsed,             \* the data payloads handed to parser.parse_data so far
  lk_held,            \* per RwLock of TerminalTool: the thread writing and the threads reading
  lk_pc,              \* per thread: its position, at the grain of lock acquire and release
  lk_table,           \* the requesters that have an entry in pending_commands
  lk_slot,            \* per requester: state of its oneshot channel
  lk_handle,          \* TerminalTool.app_handle is Some
  lk_target,          \* the requester the handle_response under way is for
  lk_fair,            \* the RwLock makes readers wait behind a waiting writer
  loop_state,         \* ToolLoopEngine: AwaitingModel, AwaitingTools, Done, Error, Cancelled
  loop_error,         \* ToolLoopEngine: the terminal error, if any
  loop_calls,         \* ToolLoopEngine: the tool calls of the model response being served
  loop_next,          \* ToolLoopEngine: index in loop_calls of the next call to dispatch
  loop_running,       \* ToolLoopEngine: the tool calls dispatched and not yet finished
  loop_history,       \* ToolLoopEngine: the tool results appended to the history, in order
  cancel_signal,      \* the shared cancellation signal is set
  cancel_requests,    \* number of times the signal was raised
  model_calls,        \* number of model calls issued (the first and the continuations)
  dispatched,         \* the tool calls dispatched, in order
  tool_rounds,        \* number of model responses with tool calls served so far
  stop_flags,         \* general_chat_cmd: STOP_FLAGS (session id -> stop requested)
  gen_pc,             \* per call of general_chat_send_message: its position
  gen_session,        \* per call of general_chat_send_message: request.session_id
  gen_left,           \* per call of general_chat_send_message: chunks still to emit
  stop_log,           \* the calls of general_chat_stop_generation made so far
  gen_asked,          \* per call of general_chat_send_message: a stop was requested for its
                      \* session since it set the flag
  aw_pc,              \* the requester inside timeout(timeout_duration, response_rx).await
  aw_table,           \* the entry of the request is in pending_commands
  aw_chan,            \* the oneshot channel of the request
  aw_elapsed,         \* the deadline of the timeout has passed
  aw_result,          \* what execute_command returned
  aw_hpc,             \* per call of handle_response: its position
  aw_hresp,           \* per call of handle_response: the response it carries
  aw_hsent            \* per call of handle_response: what became of its response

terminalVars == <<pending_commands, executed_commands, app_handle>>
scrollbackVars == <<pending_requests, sb_app_handle>>
bridgeVars == <<uuid_count, terminalVars, scrollbackVars, chan, emitted>>
taskVars == <<pc, command, timeout_secs, check_now, request_id, rx, deadline, response, result>>
ghostVars == <<hr_log, sends, registered, removed, last_success, pushed>>
buildVars == <<request, repair_pass, first_output>>
repairVars == <<msg_history, msg_index, validated_messages, pending_tool_calls, iterated, repair_pc,
                buildVars>>
turnVars == <<turn_kind, vendor, byte_stream, read_pos, buffer, parser, outbox, is_done,
              sink_open, events, posts, outcome, turn_pc, decoded, parsed>>
protocolVars == <<repairVars, turnVars>>
lockVars == <<lk_held, lk_pc, lk_table, lk_slot, lk_handle, lk_target, lk_fair>>
loopVars == <<loop_state, loop_error, loop_calls, loop_next, loop_running, loop_history,
              cancel_signal, cancel_requests, model_calls, dispatched, tool_rounds>>
stopVars == <<stop_flags, gen_pc, gen_session, gen_left, stop_log, gen_asked>>
awaitVars == <<aw_pc, aw_table, aw_chan, aw_elapsed, aw_result, aw_hpc, aw_hresp, aw_hsent>>
engineVars == <<lockVars, loopVars, stopVars, awaitVars>>
toolVars == <<now, bridgeVars, taskVars, ghostVars>>
vars == <<toolVars, protocolVars, engineVars>>

\* ------------------------------------------------------------- helpers
\* uuid::Uuid::new_v4(): the n-th id differs from every id generated before.
NewV4_Colliding(n) ==
  1

NewV4(n) ==
  n

Ids == {NewV4(n) : n \in Serials}

\* The insert left out: the table is as it was.
MapInsert_Dropped(m, k, v) ==
  m

\* HashMap::insert and HashMap::remove.
MapInsert(m, k, v) ==
  [x \in (DOMAIN m) \cup {k} |-> IF x = k THEN v ELSE m[x]]

MapRemove(m, k) ==
  [x \in (DOMAIN m) \ {k} |-> m[x]]

EmptyMap == [x \in {} |-> 0]

\* A oneshot channel: is the Sender alive, is the Receiver alive, the value sent.
NoChannel == [tx |-> FALSE, rx |-> FALSE, val |-> <<>>]
NewChannel == [tx |-> TRUE, rx |-> TRUE, val |-> <<>>]

\* Instant::duration_since saturates to zero.
DurationSince(t, earlier) ==
  IF t >= earlier THEN t - earlier ELSE 0

\* ------------------------------------------------- check_duplicate_command
\* history.retain(|cmd| now.duration_since(cmd.executed_at) < window)
RetainAll(history, n) ==
  history

Retain(history, n) ==
  SelectSeq(history,
            LAMBDA cmd : DurationSince(n, cmd.executed_at) < DUPLICATE_DETECTION_WINDOW_SECS)

\* for cmd in history.iter() { if cmd.command == command && cmd.success { return Some(..) } }
IsDuplicate_AnyRecord(history, c) ==
  \E i \in 1..Len(history) : history[i].command = c

IsDuplicateOfLastOnly(history, c) ==
  /\ Len(history) > 0
  /\ history[Len(history)].command = c
  /\ history[Len(history)].success

IsDuplicate(history, c) ==
  \E i \in 1..Len(history) : history[i].command = c /\ history[i].success

\* ------------------------------------------------- record_executed_command
\* history.push(..); if history.len() > 100 { history.remove(0); }
PushRecordDropNewest(history, rec) ==
  IF Len(history) + 1 > MAX_HISTORY_LEN THEN history ELSE Append(history, rec)

PushRecord(history, rec) ==
  LET h == Append(history, rec)
  IN  IF Len(h) > MAX_HISTORY_LEN THEN Tail(h) ELSE h

\* ------------------------------------------------------------ the state
NoResponse == <<>>
\* The response execute_command builds itself when the notification fails.
FailureResponse == [success |-> FALSE, rejected |-> FALSE, local |-> TRUE]
\* The responses the frontend can send.
Responses == [success : BOOLEAN, rejected : BOOLEAN, local : {FALSE}]
NeverSucceeded == [at |-> 0, seq |-> 0]
NothingLogged == "none"

InitCommon ==
  /\ now = 0
  /\ uuid_count = 0
  /\ pending_commands = EmptyMap
  /\ app_handle = FALSE
  /\ pending_requests = EmptyMap
  /\ sb_app_handle = FALSE
  /\ chan = [k \in Serials |-> NoChannel]
  /\ emitted = {}
  /\ pc = [t \in Tasks |-> "idle"]
  /\ command = [t \in Tasks |-> "-"]
  /\ timeout_secs = [t \in Tasks |-> 0]
  /\ check_now = [t \in Tasks |-> 0]
  /\ request_id = [t \in Tasks |-> NoId]
  /\ rx = [t \in Tasks |-> 0]
  /\ deadline = [t \in Tasks |-> 0]
  /\ response = [t \in Tasks |-> NoResponse]
  /\ result = [t \in Tasks |-> "None"]
  /\ hr_log = NothingLogged
  /\ sends = [i \in Ids |-> 0]
  /\ registered = [i \in Ids |-> 0]
  /\ removed = [i \in Ids |-> 0]

\* No call of validate_tool_message_pairs is under way.
RepairIdle ==
  /\ msg_history = <<>>
  /\ msg_index = 0
  /\ validated_messages = <<>>
  /\ pending_tool_calls = EmptyMap
  /\ iterated = {}
  /\ repair_pc = "idle"
  /\ request = <<>>
  /\ repair_pass = 1
  /\ first_output = <<>>

\* No call of chat_stream or chat_stream_continue is under way.
TurnIdle ==
  /\ turn_kind = "none"
  /\ vendor = [kind |-> "none"]
  /\ byte_stream = <<>>
  /\ read_pos = 0
  /\ buffer = <<>>
  /\ parser = [content |-> <<>>, tools |-> <<>>, thinking |-> <<>>]
  /\ outbox = <<>>
  /\ is_done = FALSE
  /\ sink_open = TRUE
  /\ events = <<>>
  /\ posts = 0
  /\ outcome = [kind |-> "none"]
  /\ turn_pc = "idle"
  /\ decoded = <<>>
  /\ parsed = <<>>

\* The lock-grain view of TerminalTool is at rest.
LockThreads == {"e1", "e2", "h", "s"}
LockNames == {"pending_commands", "executed_commands", "app_handle"}
NoThread == "none"
Unlocked == [writer |-> NoThread, readers |-> {}]
LocksIdle ==
  /\ lk_held = [l \in LockNames |-> Unlocked]
  /\ lk_pc = [th \in LockThreads |-> "idle"]
  /\ lk_table = {}
  /\ lk_slot = [th \in {"e1", "e2"} |-> "none"]
  /\ lk_handle = FALSE
  /\ lk_target = NoThread
  /\ lk_fair = TRUE

\* No tool-call loop is under way.
LoopIdle ==
  /\ loop_state = "Idle"
  /\ loop_error = "none"
  /\ loop_calls = <<>>
  /\ loop_next = 0
  /\ loop_running = {}
  /\ loop_history = <<>>
  /\ cancel_signal = FALSE
  /\ cancel_requests = 0
  /\ model_calls = 0
  /\ dispatched = <<>>
  /\ tool_rounds = 0

\* STOP_FLAGS is empty and no generation is under way.
Generations == {"g1", "g2"}
StopIdle ==
  /\ stop_flags = [x \in {} |-> FALSE]
  /\ gen_pc = [g \in Generations |-> "idle"]
  /\ gen_session = [g \in Generations |-> "none"]
  /\ gen_left = [g \in Generations |-> 0]
  /\ stop_log = <<>>
  /\ gen_asked = [g \in Generations |-> FALSE]

HandlerCalls == {"h1", "h2"}
\* A response is written with the call of handle_response that carries it.
NoResponseYet == [call |-> "-", body |-> "-"]
NoOutcome == [kind |-> "none", resp |-> NoResponseYet]
AwaitIdle ==
  /\ aw_pc = "idle"
  /\ aw_table = FALSE
  /\ aw_chan = [val |-> <<>>, rx_open |-> FALSE]
  /\ aw_elapsed = FALSE
  /\ aw_result = NoOutcome
  /\ aw_hpc = [h \in HandlerCalls |-> "idle"]
  /\ aw_hresp = [h \in HandlerCalls |-> NoResponseYet]
  /\ aw_hsent = [h \in HandlerCalls |-> "none"]

EngineIdle ==
  /\ AwaitIdle
  /\ LocksIdle
  /\ LoopIdle
  /\ StopIdle

\* TerminalTool::new() and TermScrollbackTool::new()
ToolsInit ==
  /\ InitCommon
  /\ executed_commands = <<>>
  /\ last_success = [c \in Commands |-> NeverSucceeded]
  /\ pushed = 0

\* TerminalTool::new()
Init ==
  /\ ToolsInit
  /\ RepairIdle
  /\ TurnIdle
  /\ EngineIdle

\* ------------------------------------------------------------- actions
\* TerminalTool::set_app_handle
SetAppHandle ==
  /\ app_handle' = TRUE
  /\ UNCHANGED <<now, scrollbackVars, uuid_count, pending_commands, executed_commands, chan, emitted>>
  /\ UNCHANGED <<taskVars, ghostVars>>
  /\ UNCHANGED <<protocolVars, engineVars>>

\* The clock advances.
Tick ==
  /\ now < MaxTime
  /\ now' = IF now + TickSecs > MaxTime THEN MaxTime ELSE now + TickSecs
  /\ UNCHANGED <<bridgeVars, taskVars, ghostVars>>
  /\ UNCHANGED <<protocolVars, engineVars>>

\* TerminalTool::execute returns res: its locals go out of scope.
Return(t, res) ==
  /\ pc' = [pc EXCEPT ![t] = "idle"]
  /\ result' = [result EXCEPT ![t] = res]
  /\ command' = [command EXCEPT ![t] = "-"]
  /\ timeout_secs' = [timeout_secs EXCEPT ![t] = 0]
  /\ check_now' = [check_now EXCEPT ![t] = 0]
  /\ rx' = [rx EXCEPT ![t] = 0]
  /\ deadline' = [deadline EXCEPT ![t] = 0]
  /\ response' = [response EXCEPT ![t] = NoResponse]

InCallBeforeRegister == {u \in Tasks : pc[u] \in {"scan", "register"}}

\* TerminalTool::execute, argument parsing and the first critical section of
\* check_duplicate_command: capture `now`, drop the expired records.
Execute_CheckRetain(t, c, ts) ==
  /\ pc[t] = "idle"
  /\ uuid_count + Cardinality(InCallBeforeRegister) < MaxCalls
  /\ pc' = [pc EXCEPT ![t] = "scan"]
  /\ command' = [command EXCEPT ![t] = c]
  /\ timeout_secs' = [timeout_secs EXCEPT ![t] = ts]
  /\ check_now' = [check_now EXCEPT ![t] = now]
  /\ executed_commands' = Retain(executed_commands, now)
  /\ request_id' = [request_id EXCEPT ![t] = NoId]
  /\ result' = [result EXCEPT ![t] = "None"]
  /\ UNCHANGED <<now, scrollbackVars, uuid_count, pending_commands, app_handle, chan, emitted>>
  /\ UNCHANGED <<rx, deadline, response, ghostVars>>
  /\ UNCHANGED <<protocolVars, engineVars>>

\* Second critical section of check_duplicate_command and the early return of
\* TerminalTool::execute with "[DUPLICATE COMMAND BLOCKED]".
Execute_CheckScan(t) ==
  /\ pc[t] = "scan"
  /\ IF IsDuplicate(executed_commands, command[t])
       THEN Return(t, "Blocked")
       ELSE /\ pc' = [pc EXCEPT ![t] = "register"]
            /\ UNCHANGED <<result, command, timeout_secs, check_now, rx, deadline, response>>
  /\ UNCHANGED <<now, bridgeVars, ghostVars, request_id>>
  /\ UNCHANGED <<protocolVars, engineVars>>

\* The Sender stored under key k, if any, is dropped.
DropSenderAt(ch, m, k) ==
  IF k \in DOMAIN m
    THEN [ch EXCEPT ![m[k]] = IF ch[m[k]].rx THEN [@ EXCEPT !.tx = FALSE] ELSE NoChannel]
    ELSE ch

\* The Receiver of channel k is dropped.
DropReceiver(ch, k) ==
  [ch EXCEPT ![k] = IF ch[k].tx THEN [@ EXCEPT !.rx = FALSE, !.val = <<>>] ELSE NoChannel]

\* commands.remove(&request_id), the removed PendingCommand being dropped.
Unregister(id) ==
  /\ pending_commands' = MapRemove(pending_commands, id)
  /\ removed' = IF id \in DOMAIN pending_commands
                  THEN [removed EXCEPT ![id] = @ + 1] ELSE removed

\* execute_command: new uuid, oneshot::channel(), insert into pending_commands.
ExecuteCommand_Register(t) ==
  /\ pc[t] = "register"
  /\ LET k == uuid_count + 1
         id == NewV4(k)
     IN  /\ uuid_count' = k
         /\ chan' = [DropSenderAt(chan, pending_commands, id) EXCEPT ![k] = NewChannel]
         /\ pending_commands' = MapInsert(pending_commands, id, k)
         /\ registered' = [registered EXCEPT ![id] = @ + 1]
         /\ request_id' = [request_id EXCEPT ![t] = id]
         /\ rx' = [rx EXCEPT ![t] = k]
  /\ pc' = [pc EXCEPT ![t] = "notify"]
  /\ UNCHANGED <<now, scrollbackVars, executed_commands, app_handle, emitted>>
  /\ UNCHANGED <<command, timeout_secs, check_now, deadline, response, result>>
  /\ UNCHANGED <<hr_log, sends, removed, last_success, pushed>>
  /\ UNCHANGED <<protocolVars, engineVars>>

\* The notification was delivered: timeout(timeout_duration, response_rx) is created.
NotifyWaits(t) ==
  /\ deadline' = [deadline EXCEPT ![t] = now + timeout_secs[t]]
  /\ pc' = [pc EXCEPT ![t] = "await"]
  /\ UNCHANGED <<pending_commands, removed, chan, response, rx>>

NotifyFailed_StillWaits(t) ==
  /\ NotifyWaits(t)
  /\ UNCHANGED emitted

\* The two failure returns of the notification block: the slot is removed and
\* a failed response is returned; response_tx and response_rx are dropped.
NotifyFailed(t) ==
  /\ Unregister(request_id[t])
  /\ chan' = [DropSenderAt(chan, pending_commands, request_id[t]) EXCEPT ![rx[t]] = NoChannel]
  /\ response' = [response EXCEPT ![t] = <<FailureResponse>>]
  /\ pc' = [pc EXCEPT ![t] = "record"]
  /\ rx' = [rx EXCEPT ![t] = 0]
  /\ UNCHANGED <<emitted, deadline>>

\* execute_command: the notification block, and the creation of the timeout.
ExecuteCommand_Notify(t) ==
  /\ pc[t] = "notify"
  /\ \/ /\ app_handle
        /\ now + timeout_secs[t] <= MaxTime
        /\ emitted' = emitted \cup {request_id[t]}
        /\ NotifyWaits(t)
     \/ /\ app_handle
        /\ NotifyFailed(t)
     \/ /\ ~app_handle
        /\ NotifyFailed(t)
  /\ UNCHANGED <<now, scrollbackVars, uuid_count, executed_commands, app_handle>>
  /\ UNCHANGED <<command, timeout_secs, check_now, request_id, result>>
  /\ UNCHANGED <<hr_log, sends, registered, last_success, pushed>>
  /\ UNCHANGED <<protocolVars, engineVars>>

\* tokio::time::timeout polls the receiver first and the timer second.
TimerElapsed_Never(t) ==
  FALSE

TimerElapsed(t) ==
  now >= deadline[t]

\* Receiver::poll: a value was sent; the Sender was dropped without sending.
ValueReady(t) ==
  chan[rx[t]].val # <<>>

SenderGone(t) ==
  ~chan[rx[t]].tx /\ chan[rx[t]].val = <<>>

\* execute_command: `match timeout(timeout_duration, response_rx).await`.  The
\* future, and response_rx with it, is dropped when the await completes.
ExecuteCommand_Await(t) ==
  /\ pc[t] = "await"
  /\ ValueReady(t) \/ SenderGone(t) \/ TimerElapsed(t)
  /\ IF ValueReady(t)
       THEN /\ response' = [response EXCEPT ![t] = chan[rx[t]].val]
            /\ pc' = [pc EXCEPT ![t] = "record"]
       ELSE /\ pc' = [pc EXCEPT ![t] = IF SenderGone(t) THEN "arm_closed" ELSE "arm_timeout"]
            /\ UNCHANGED response
  /\ chan' = DropReceiver(chan, rx[t])
  /\ rx' = [rx EXCEPT ![t] = 0]
  /\ deadline' = [deadline EXCEPT ![t] = 0]
  /\ UNCHANGED <<now, scrollbackVars, uuid_count, pending_commands, executed_commands, app_handle, emitted>>
  /\ UNCHANGED <<command, timeout_secs, check_now, request_id, result, ghostVars>>
  /\ UNCHANGED <<protocolVars, engineVars>>

\* The match arm leaves the table alone.
RemoveOwnEntry_Skipped(t) ==
  UNCHANGED <<pending_commands, removed, chan>>

\* commands.remove(&request_id) of the Ok(Err(_)) and Err(_) arms.
RemoveOwnEntry(t) ==
  /\ Unregister(request_id[t])
  /\ chan' = DropSenderAt(chan, pending_commands, request_id[t])

\* execute_command: the Ok(Err(_)) and Err(_) arms; execute returns the error.
ExecuteCommand_Unregister(t) ==
  /\ pc[t] \in {"arm_closed", "arm_timeout"}
  /\ RemoveOwnEntry(t)
  /\ LET res == IF pc[t] = "arm_timeout" THEN "Timeout" ELSE "ChannelClosed"
     IN  /\ pc' = [pc EXCEPT ![t] = "idle"]
         /\ result' = [result EXCEPT ![t] = res]
         /\ command' = [command EXCEPT ![t] = "-"]
         /\ timeout_secs' = [timeout_secs EXCEPT ![t] = 0]
  /\ UNCHANGED <<now, scrollbackVars, uuid_count, executed_commands, app_handle, emitted>>
  /\ UNCHANGED <<check_now, request_id, rx, deadline, response>>
  /\ UNCHANGED <<hr_log, sends, registered, last_success, pushed>>
  /\ UNCHANGED <<protocolVars, engineVars>>

\* The ToolResult TerminalTool::execute builds from a response.
ToolResultOf(resp) ==
  IF resp.local THEN "NotifyFailed"
  ELSE IF resp.rejected THEN "Rejected"
  ELSE IF resp.success THEN "Success" ELSE "Failure"

\* TerminalTool::execute: record_executed_command(command, response.success),
\* then the ToolResult is built and returned.
Execute_Record(t) ==
  /\ pc[t] = "record"
  /\ LET rec == [command |-> command[t], executed_at |-> now, success |-> response[t][1].success]
     IN  /\ executed_commands' = PushRecord(executed_commands, rec)
         /\ pushed' = pushed + 1
         /\ last_success' = IF rec.success
                              THEN [last_success EXCEPT ![rec.command] = [at |-> now, seq |-> pushed + 1]]
                              ELSE last_success
  /\ Return(t, ToolResultOf(response[t][1]))
  /\ UNCHANGED <<now, scrollbackVars, uuid_count, pending_commands, app_handle, chan, emitted>>
  /\ UNCHANGED <<request_id, hr_log, sends, registered, removed>>
  /\ UNCHANGED <<protocolVars, engineVars>>

\* The task awaiting the slot is cancelled: the future of execute is dropped
\* at its await point, and response_rx with it.
DropFuture(t) ==
  /\ pc[t] \in {"await", "sb_await"}
  /\ chan' = DropReceiver(chan, rx[t])
  /\ Return(t, "Cancelled")
  /\ UNCHANGED <<now, scrollbackVars, uuid_count, pending_commands, executed_commands, app_handle, emitted>>
  /\ UNCHANGED <<request_id, ghostVars>>
  /\ UNCHANGED <<protocolVars, engineVars>>

\* The request ids the frontend can answer, to either tool: those it was sent.
AnswerableIds == emitted

\* commands.get(&request_id) in place of commands.remove(&request_id).
TakePending_Peek(id) ==
  UNCHANGED <<pending_commands, removed>>

\* let pending = { commands.remove(&request_id) }
TakePending(id) ==
  Unregister(id)

\* TerminalTool::handle_response
HandleResponse(id, resp) ==
  /\ IF id \in DOMAIN pending_commands
       THEN /\ TakePending(id)
            /\ IF chan[pending_commands[id]].rx
                 THEN /\ chan' = [chan EXCEPT ![pending_commands[id]] =
                                     [tx |-> FALSE, rx |-> TRUE, val |-> <<resp>>]]
                      /\ sends' = [sends EXCEPT ![id] = @ + 1]
                      /\ UNCHANGED hr_log
                 ELSE /\ chan' = [chan EXCEPT ![pending_commands[id]] = NoChannel]
                      /\ hr_log' = "send_failed"
                      /\ UNCHANGED sends
       ELSE /\ hr_log' = "not_found"
            /\ UNCHANGED <<pending_commands, removed, chan, sends>>
  /\ UNCHANGED <<now, scrollbackVars, uuid_count, executed_commands, app_handle, emitted>>
  /\ UNCHANGED <<taskVars, registered, last_success, pushed>>
  /\ UNCHANGED <<protocolVars, engineVars>>

\* ------------------------------------------------- TermScrollbackTool
SCROLLBACK_TIMEOUT_SECS == 30
ScrollbackResponses == {r \in Responses : ~r.rejected}

\* TermScrollbackTool::set_app_handle
Scrollback_SetAppHandle ==
  /\ sb_app_handle' = TRUE
  /\ UNCHANGED <<now, uuid_count, terminalVars, pending_requests, chan, emitted>>
  /\ UNCHANGED <<taskVars, ghostVars>>
  /\ UNCHANGED <<protocolVars, engineVars>>

\* requests.remove(&request_id), the removed PendingRequest being dropped.
Scrollback_Unregister(id) ==
  /\ pending_requests' = MapRemove(pending_requests, id)
  /\ removed' = IF id \in DOMAIN pending_requests
                  THEN [removed EXCEPT ![id] = @ + 1] ELSE removed

\* TermScrollbackTool::execute calls get_scrollback: new uuid,
\* oneshot::channel(), insert into pending_requests.
GetScrollback_Register(t) ==
  /\ pc[t] = "idle"
  /\ uuid_count + Cardinality(InCallBeforeRegister) < MaxCalls
  /\ LET k == uuid_count + 1
         id == NewV4(k)
     IN  /\ uuid_count' = k
         /\ chan' = [DropSenderAt(chan, pending_requests, id) EXCEPT ![k] = NewChannel]
         /\ pending_requests' = MapInsert(pending_requests, id, k)
         /\ registered' = [registered EXCEPT ![id] = @ + 1]
         /\ request_id' = [request_id EXCEPT ![t] = id]
         /\ rx' = [rx EXCEPT ![t] = k]
  /\ pc' = [pc EXCEPT ![t] = "sb_notify"]
  /\ result' = [result EXCEPT ![t] = "None"]
  /\ UNCHANGED <<now, terminalVars, sb_app_handle, emitted>>
  /\ UNCHANGED <<command, timeout_secs, check_now, deadline, response>>
  /\ UNCHANGED <<hr_log, sends, removed, last_success, pushed>>
  /\ UNCHANGED <<protocolVars, engineVars>>

\* The two failure returns of the notification block of get_scrollback.
Scrollback_NotifyFailed(t) ==
  /\ Scrollback_Unregister(request_id[t])
  /\ chan' = [DropSenderAt(chan, pending_requests, request_id[t]) EXCEPT ![rx[t]] = NoChannel]
  /\ Return(t, "NotifyFailed")
  /\ UNCHANGED emitted

\* get_scrollback: the notification block, and the creation of the timeout.
GetScrollback_Notify(t) ==
  /\ pc[t] = "sb_notify"
  /\ \/ /\ sb_app_handle
        /\ now + SCROLLBACK_TIMEOUT_SECS <= MaxTime
        /\ emitted' = emitted \cup {request_id[t]}
        /\ deadline' = [deadline EXCEPT ![t] = now + SCROLLBACK_TIMEOUT_SECS]
        /\ pc' = [pc EXCEPT ![t] = "sb_await"]
        /\ UNCHANGED <<pending_requests, removed, chan, rx, result>>
        /\ UNCHANGED <<command, timeout_secs, check_now, response>>
     \/ /\ sb_app_handle
        /\ Scrollback_NotifyFailed(t)
     \/ /\ ~sb_app_handle
        /\ Scrollback_NotifyFailed(t)
  /\ UNCHANGED <<now, uuid_count, terminalVars, sb_app_handle, request_id>>
  /\ UNCHANGED <<hr_log, sends, registered, last_success, pushed>>
  /\ UNCHANGED <<protocolVars, engineVars>>

\* get_scrollback: `match timeout(timeout_duration, response_rx).await`; on a
\* response, execute builds the ToolResult and returns.
GetScrollback_Await(t) ==
  /\ pc[t] = "sb_await"
  /\ ValueReady(t) \/ SenderGone(t) \/ TimerElapsed(t)
  /\ chan' = DropReceiver(chan, rx[t])
  /\ IF ValueReady(t)
       THEN Return(t, IF chan[rx[t]].val[1].success THEN "Success" ELSE "Failure")
       ELSE /\ pc' = [pc EXCEPT ![t] = IF SenderGone(t) THEN "sb_arm_closed" ELSE "sb_arm_timeout"]
            /\ rx' = [rx EXCEPT ![t] = 0]
            /\ deadline' = [deadline EXCEPT ![t] = 0]
            /\ UNCHANGED <<result, command, timeout_secs, check_now, response>>
  /\ UNCHANGED <<now, uuid_count, terminalVars, scrollbackVars, emitted>>
  /\ UNCHANGED <<request_id, ghostVars>>
  /\ UNCHANGED <<protocolVars, engineVars>>

\* get_scrollback: the Ok(Err(_)) and Err(_) arms; execute returns the error.
GetScrollback_Unregister(t) ==
  /\ pc[t] \in {"sb_arm_closed", "sb_arm_timeout"}
  /\ Scrollback_Unregister(request_id[t])
  /\ chan' = DropSenderAt(chan, pending_requests, request_id[t])
  /\ Return(t, IF pc[t] = "sb_arm_timeout" THEN "Timeout" ELSE "ChannelClosed")
  /\ UNCHANGED <<now, uuid_count, terminalVars, sb_app_handle, emitted>>
  /\ UNCHANGED <<request_id, hr_log, sends, registered, last_success, pushed>>
  /\ UNCHANGED <<protocolVars, engineVars>>

\* TermScrollbackTool::handle_response
Scrollback_HandleResponse(id, resp) ==
  /\ IF id \in DOMAIN pending_requests
       THEN /\ Scrollback_Unregister(id)
            /\ IF chan[pending_requests[id]].rx
                 THEN /\ chan' = [chan EXCEPT ![pending_requests[id]] =
                                     [tx |-> FALSE, rx |-> TRUE, val |-> <<resp>>]]
                      /\ sends' = [sends EXCEPT ![id] = @ + 1]
                      /\ UNCHANGED hr_log
                 ELSE /\ chan' = [chan EXCEPT ![pending_requests[id]] = NoChannel]
                      /\ hr_log' = "sb_send_failed"
                      /\ UNCHANGED sends
       ELSE /\ hr_log' = "sb_not_found"
            /\ UNCHANGED <<pending_requests, removed, chan, sends>>
  /\ UNCHANGED <<now, uuid_count, terminalVars, sb_app_handle, emitted>>
  /\ UNCHANGED <<taskVars, registered, last_success, pushed>>
  /\ UNCHANGED <<protocolVars, engineVars>>

Next ==
  \/ SetAppHandle
  \/ Tick
  \/ \E t \in Tasks, c \in Commands, ts \in TimeoutInputs : Execute_CheckRetain(t, c, ts)
  \/ \E t \in Tasks : Execute_CheckScan(t)
  \/ \E t \in Tasks : ExecuteCommand_Register(t)
  \/ \E t \in Tasks : ExecuteCommand_Notify(t)
  \/ \E t \in Tasks : ExecuteCommand_Await(t)
  \/ \E t \in Tasks : ExecuteCommand_Unregister(t)
  \/ \E t \in Tasks : Execute_Record(t)
  \/ \E t \in Tasks : DropFuture(t)
  \/ \E id \in AnswerableIds, resp \in Responses : HandleResponse(id, resp)
  \/ Scrollback_SetAppHandle
  \/ \E t \in Tasks : GetScrollback_Register(t)
  \/ \E t \in Tasks : GetScrollback_Notify(t)
  \/ \E t \in Tasks : GetScrollback_Await(t)
  \/ \E t \in Tasks : GetScrollback_Unregister(t)
  \/ \E id \in AnswerableIds, resp \in ScrollbackResponses : Scrollback_HandleResponse(id, resp)

Spec == Init /\ [][Next]_vars

\* A state the tool reaches after MAX_HISTORY_LEN executions inside one window:
\* a successful "c1" followed by failed executions of "c2", the buffer is full.
FullHistory ==
  [i \in 1..MAX_HISTORY_LEN |->
     IF i = 1 THEN [command |-> "c1", executed_at |-> 0, success |-> TRUE]
              ELSE [command |-> "c2", executed_at |-> 0, success |-> FALSE]]

InitFullHistory ==
  /\ InitCommon
  /\ executed_commands = FullHistory
  /\ last_success = [c \in Commands |-> IF c = "c1" THEN [at |-> 0, seq |-> 1] ELSE NeverSucceeded]
  /\ pushed = MAX_HISTORY_LEN
  /\ RepairIdle
  /\ TurnIdle
  /\ EngineIdle

SpecFullHistory == InitFullHistory /\ [][Next]_vars
\* The steps task t takes by itself once its call has started; at most one of
\* them is enabled at a time.
TaskStep(t) ==
  \/ Execute_CheckScan(t)
  \/ ExecuteCommand_Register(t)
  \/ ExecuteCommand_Notify(t)
  \/ ExecuteCommand_Await(t)
  \/ ExecuteCommand_Unregister(t)
  \/ Execute_Record(t)
  \/ GetScrollback_Notify(t)
  \/ GetScrollback_Await(t)
  \/ GetScrollback_Unregister(t)

\* The timer is fair, the executor polls a task that was woken, and a task
\* that is running its synchronous code keeps running.  Nothing is assumed of
\* the frontend (HandleResponse), of the callers, or of cancellation.
Fairness ==
  /\ WF_vars(Tick)
  /\ \A t \in Tasks : WF_vars(TaskStep(t))

FairSpec == Spec /\ Fairness
\* ------------------------------------------------------------ properties
InFlight(t) == pc[t] \in {"notify", "await", "arm_closed", "arm_timeout",
                          "sb_notify", "sb_await", "sb_arm_closed", "sb_arm_timeout"}
Awaiting(t) == pc[t] \in {"await", "sb_await"}
Returned(t) == pc[t] = "idle" /\ result[t] \notin {"None", "Blocked", "Cancelled"}
AllPending == (DOMAIN pending_commands) \cup (DOMAIN pending_requests)
EverythingButTheLog ==
  <<now, bridgeVars, taskVars, sends, registered, removed, last_success, pushed, protocolVars, engineVars>>

\* C1: fulfilment is at-most-once per request id.  At most one response is
\* ever delivered for a request id; once the slot of an id has been removed it
\* never comes back and nothing more is delivered for that id; and a
\* handle_response (of either tool) that finds no slot only logs the
\* "not found" warning: it changes neither the tables, nor a channel, nor a
\* requester, nor the history.
C1_FulfilAtMostOnce ==
  /\ [](\A id \in Ids : sends[id] <= 1)
  /\ [][/\ \A id \in Ids :
             (registered[id] > 0 /\ id \notin AllPending)
               => (sends'[id] = sends[id] /\ id \notin AllPending')
        /\ (hr_log' # hr_log /\ hr_log' \in {"not_found", "sb_not_found"})
               => UNCHANGED EverythingButTheLog]_vars

\* C1 witness: the only request emitted so far, a terminal command, was
\* resolved by a first response, and TerminalTool::handle_response has dropped
\* a second response with the "not found" warning.
C1_Witness ==
  /\ emitted = {NewV4(1)}
  /\ ~sb_app_handle
  /\ sends[NewV4(1)] = 1
  /\ hr_log = "not_found"
C5_NoLeakOnReturn ==
  \A t \in Tasks :
    ((Returned(t) \/ pc[t] = "record") /\ request_id[t] # NoId)
      => request_id[t] \notin AllPending

\* C5 witness: one request returned through the timeout arm and another one
\* through a failed notification.
C5_Witness ==
  \E t, u \in Tasks :
    /\ pc[t] = "idle" /\ result[t] = "Timeout"
    /\ pc[u] = "idle" /\ result[u] = "NotifyFailed"

\* C7: a request waits on its slot only if its notification was emitted; a
\* request whose notification failed has removed its slot, created no timer
\* and returns the failure.
C7_NoWaitWithoutNotification ==
  \A t \in Tasks :
    /\ Awaiting(t) => request_id[t] \in emitted
    /\ (InFlight(t) /\ ~Awaiting(t) /\ pc[t] \notin {"notify", "sb_notify"})
         => request_id[t] \in emitted
    /\ ((pc[t] = "record" /\ response[t][1].local) \/ (pc[t] = "idle" /\ result[t] = "NotifyFailed"))
         => (request_id[t] \notin AllPending /\ request_id[t] \notin emitted /\ deadline[t] = 0)

\* C7 witness: with the AppHandle attached the emit failed and execute returned
\* the failure, while the table is empty.
C7_Witness ==
  \E t \in Tasks :
    /\ pc[t] = "idle" /\ result[t] = "NotifyFailed"
    /\ app_handle /\ sb_app_handle
    /\ AllPending = {}
\* C3: every Bridge request terminates.  Under a fair timer a call of execute
\* (of either tool) that has started eventually returns, whatever the frontend
\* does, and what it returns is one of the outcomes of the contract.
C3_RequestTerminates ==
  /\ \A t \in Tasks : (pc[t] # "idle") ~> (pc[t] = "idle")
  /\ [](\A t \in Tasks :
          (pc[t] = "idle" /\ request_id[t] # NoId)
            => result[t] \in {"Success", "Failure", "Rejected", "NotifyFailed",
                              "Timeout", "ChannelClosed", "Cancelled"})

\* C3 witness: a request the frontend never answered has returned Timeout.
C3_Witness ==
  \E t \in Tasks :
    /\ pc[t] = "idle" /\ result[t] = "Timeout"
    /\ \A id \in Ids : sends[id] = 0
    /\ hr_log = NothingLogged

C6_EntryEventuallyRemoved ==
  \A id \in Ids : (id \in AllPending) ~> (id \notin AllPending)

\* The duplicate check of task t completes: its scan of the history is made.
ScanStep(t) == pc[t] = "scan" /\ pc'[t] # "scan"
\* The scan short-circuits the call: execute returns the blocked result,
\* nothing is registered and no request event is emitted.
BlockedBy(t) ==
  /\ pc'[t] = "idle" /\ result'[t] = "Blocked"
  /\ uuid_count' = uuid_count /\ emitted' = emitted
  /\ pending_commands' = pending_commands
\* The last successful execution of c was recorded less than the window ago.
SucceededInsideWindow(c, at) ==
  /\ last_success[c].seq > 0
  /\ DurationSince(at, last_success[c].at) < DUPLICATE_DETECTION_WINDOW_SECS

\* C8 (the claim as stated): whenever the last successful execution of c was
\* recorded less than 30 seconds ago, the duplicate check of execute(c) blocks
\* the call, however many commands were executed in between.
C8_BlockedInsideWindow ==
  [][\A t \in Tasks :
       (ScanStep(t) /\ SucceededInsideWindow(command[t], now)) => BlockedBy(t)]_vars

\* C8 (amended): whenever the last successful execution of c was recorded less
\* than 30 seconds ago and fewer than 100 records were pushed after it, the
\* duplicate check of execute(c) blocks the call: execute returns the
\* "[DUPLICATE COMMAND BLOCKED]" result, registers nothing and emits no
\* terminal_command_request.
C8_BlockedInsideWindowUnderCap ==
  [][\A t \in Tasks :
       (/\ ScanStep(t)
        /\ SucceededInsideWindow(command[t], now)
        /\ pushed - last_success[command[t]].seq < MAX_HISTORY_LEN)
         => BlockedBy(t)]_vars

\* C8 witness: execute("c1") was blocked while the successful record of "c1"
\* is the oldest of a full buffer, 99 executions of "c2" having followed it.
C8_Witness ==
  \E t \in Tasks :
    /\ pc[t] = "idle" /\ result[t] = "Blocked"
    /\ Len(executed_commands) = MAX_HISTORY_LEN
    /\ executed_commands[1] = [command |-> "c1", executed_at |-> 0, success |-> TRUE]
    /\ executed_commands[MAX_HISTORY_LEN].command = "c2"

\* C9: a second execute(c) inside the window of a successful execution is
\* short-circuited without a request being registered or emitted; a blocked
\* attempt records nothing and leaves the time of the last success alone; and a
\* call of execute(c) made once 30 seconds have passed since the last
\* successful execution of c was recorded (or when there is none) passes the
\* duplicate check and goes on to dispatch the command.
C9_DispatchedAgainAfterWindow ==
  [][\A t \in Tasks :
       ScanStep(t) =>
         /\ (pushed < MAX_HISTORY_LEN /\ SucceededInsideWindow(command[t], now))
              => BlockedBy(t)
         /\ pc'[t] = "idle"
              => (BlockedBy(t) /\ executed_commands' = executed_commands
                               /\ pushed' = pushed /\ last_success' = last_success)
         /\ ~SucceededInsideWindow(command[t], check_now[t])
              => (pc'[t] = "register" /\ executed_commands' = executed_commands)]_vars

\* C9 witness: "c" succeeded, a second execute("c") was blocked, and a third
\* one, called 30 seconds or more after the success, has passed the check.
C9_Witness ==
  \E t, u \in Tasks :
    /\ pc[t] = "register"
    /\ last_success[command[t]].seq > 0
    /\ check_now[t] - last_success[command[t]].at >= DUPLICATE_DETECTION_WINDOW_SECS
    /\ pc[u] = "idle" /\ result[u] = "Blocked"

\* C10: the history never holds more than 100 records; recording on a full
\* history evicts its first (oldest) record and appends the new one, recording
\* otherwise only appends; and from the first critical section of a duplicate
\* check on (until the call registers its request) the history holds no record
\* that is 30 seconds or more older than the `now` the check captured.
C10_BoundedAgeEvicted ==
  /\ [](Len(executed_commands) <= MAX_HISTORY_LEN)
  /\ [](\A t \in Tasks : pc[t] \in {"scan", "register"} =>
          \A i \in 1..Len(executed_commands) :
            DurationSince(check_now[t], executed_commands[i].executed_at)
              < DUPLICATE_DETECTION_WINDOW_SECS)
  /\ [][\A t \in Tasks :
          (pc[t] = "record" /\ pc'[t] = "idle") =>
            LET rec == [command |-> command[t], executed_at |-> now,
                        success |-> response[t][1].success]
            IN  executed_commands' =
                  Append(IF Len(executed_commands) = MAX_HISTORY_LEN
                           THEN Tail(executed_commands) ELSE executed_commands, rec)]_vars

\* C10 witness: a record was pushed onto the full history, whose oldest record
\* (the successful "c1") is gone while the buffer still holds 100 records.
C10_Witness ==
  /\ pushed > MAX_HISTORY_LEN
  /\ Len(executed_commands) = MAX_HISTORY_LEN
  /\ executed_commands[1].command = "c2"

\* ============================================================================
\* AnthropicProtocol::validate_tool_message_pairs (agent/protocols/anthropic.rs)
\* ============================================================================
MaxHistoryLen == 3
ToolCallIds == {"t1", "t2"}
NoToolCallId == "none"

\* AgentMessage, as far as validate_tool_message_pairs and
\* convert_to_anthropic_message read it: role, tool_calls (the ids, <<>> for
\* None), tool_call_id, whether the content is the text of the default
\* result, and the form of the content (MessageContent::Parts or ::Text).
AssistantMessage(ids) ==
  [role |-> "assistant", tool_calls |-> ids, tool_call_id |-> NoToolCallId, synthetic |-> FALSE,
   parts |-> FALSE]
\* An assistant message whose content is MessageContent::Parts.
AssistantPartsMessage(ids) ==
  [AssistantMessage(ids) EXCEPT !.parts = TRUE]
ToolMessage(id) ==
  [role |-> "tool", tool_calls |-> <<>>, tool_call_id |-> id, synthetic |-> FALSE,
   parts |-> FALSE]
UserMessage ==
  [role |-> "user", tool_calls |-> <<>>, tool_call_id |-> NoToolCallId, synthetic |-> FALSE,
   parts |-> FALSE]
\* let default_result = AgentMessage { role: "tool", .., tool_call_id: Some(id) }
DefaultResult(id) ==
  [role |-> "tool", tool_calls |-> <<>>, tool_call_id |-> id, synthetic |-> TRUE,
   parts |-> FALSE]

\* The messages the histories tried are made of.
InputMessages ==
  {AssistantMessage(ids) : ids \in {<<>>, <<"t1">>, <<"t2">>, <<"t1", "t2">>, <<"t2", "t1">>}}
    \cup {AssistantPartsMessage(ids) : ids \in {<<"t1">>, <<"t1", "t2">>}}
    \cup {ToolMessage(id) : id \in ToolCallIds \cup {NoToolCallId}}
    \cup {UserMessage}
Histories == UNION {[1..n -> InputMessages] : n \in 0..MaxHistoryLen}

\* for tc in tool_calls { pending_tool_calls.insert(tc.id.clone(), false); }
RECURSIVE InsertCalls(_, _)
InsertCalls(pending, ids) ==
  IF ids = <<>> THEN pending
  ELSE InsertCalls(MapInsert(pending, Head(ids), FALSE), Tail(ids))

\* The orphan test left out: every tool message that has an id is kept.
HasCall_Always(pending, id) ==
  TRUE

\* pending_tool_calls.contains_key(tool_call_id)
HasCall(pending, id) ==
  id \in DOMAIN pending

\* The result is not noted: the call stays unanswered in the table.
MarkAnswered_Lost(pending, id) ==
  MapInsert(pending, id, FALSE)

\* pending_tool_calls.insert(tool_call_id.clone(), true)
MarkAnswered(pending, id) ==
  MapInsert(pending, id, TRUE)

\* The copy loses the tool calls of the message.
Clone_WithoutToolCalls(msg) ==
  [msg EXCEPT !.tool_calls = <<>>]

\* msg.clone()
Clone(msg) ==
  msg

\* build_messages / build_messages_from_history call
\* validate_tool_message_pairs(history).
InitRepair ==
  /\ ToolsInit
  /\ TurnIdle
  /\ EngineIdle
  /\ msg_history \in Histories
  /\ msg_index = 0
  /\ validated_messages = <<>>
  /\ pending_tool_calls = EmptyMap
  /\ iterated = {}
  /\ repair_pc = "messages"
  /\ request = <<>>
  /\ repair_pass = 1
  /\ first_output = <<>>

\* `for msg in history`, one message: the "assistant" arm.
Validate_Assistant ==
  /\ repair_pc = "messages" /\ msg_index < Len(msg_history)
  /\ LET msg == msg_history[msg_index + 1]
     IN  /\ msg.role = "assistant"
         /\ pending_tool_calls' = InsertCalls(pending_tool_calls, msg.tool_calls)
         /\ validated_messages' = Append(validated_messages, Clone(msg))
  /\ msg_index' = msg_index + 1
  /\ UNCHANGED <<msg_history, iterated, repair_pc, buildVars, turnVars, toolVars, engineVars>>

\* `for msg in history`, one message: the "tool" arm.
Validate_Tool ==
  /\ repair_pc = "messages" /\ msg_index < Len(msg_history)
  /\ LET msg == msg_history[msg_index + 1]
     IN  /\ msg.role = "tool"
         /\ IF msg.tool_call_id # NoToolCallId /\ HasCall(pending_tool_calls, msg.tool_call_id)
              THEN /\ pending_tool_calls' = MarkAnswered(pending_tool_calls, msg.tool_call_id)
                   /\ validated_messages' = Append(validated_messages, Clone(msg))
              ELSE UNCHANGED <<pending_tool_calls, validated_messages>>
  /\ msg_index' = msg_index + 1
  /\ UNCHANGED <<msg_history, iterated, repair_pc, buildVars, turnVars, toolVars, engineVars>>

\* `for msg in history`, one message: the `_` arm.
Validate_Other ==
  /\ repair_pc = "messages" /\ msg_index < Len(msg_history)
  /\ LET msg == msg_history[msg_index + 1]
     IN  /\ msg.role \notin {"assistant", "tool"}
         /\ validated_messages' = Append(validated_messages, Clone(msg))
  /\ msg_index' = msg_index + 1
  /\ UNCHANGED <<msg_history, pending_tool_calls, iterated, repair_pc, buildVars, turnVars, toolVars, engineVars>>

\* The first loop is over.
Validate_EndOfHistory ==
  /\ repair_pc = "messages" /\ msg_index = Len(msg_history)
  /\ repair_pc' = "unpaired"
  /\ UNCHANGED <<msg_history, msg_index, validated_messages, pending_tool_calls, iterated>>
  /\ UNCHANGED <<buildVars, turnVars, toolVars, engineVars>>

\* `for (tool_call_id, has_result) in &pending_tool_calls`, one entry.  The
\* order in which a std HashMap yields its entries is unspecified (the hasher
\* is seeded at random): any entry not visited yet can be the next one.
Validate_Unpaired(id) ==
  /\ repair_pc = "unpaired"
  /\ id \in (DOMAIN pending_tool_calls) \ iterated
  /\ iterated' = iterated \cup {id}
  /\ validated_messages' = IF ~pending_tool_calls[id]
                             THEN Append(validated_messages, DefaultResult(id))
                             ELSE validated_messages
  /\ UNCHANGED <<msg_history, msg_index, pending_tool_calls, repair_pc, buildVars, turnVars, toolVars, engineVars>>

\* validate_tool_message_pairs returns validated_messages.
Validate_Return ==
  /\ repair_pc = "unpaired"
  /\ iterated = DOMAIN pending_tool_calls
  /\ repair_pc' = "done"
  /\ UNCHANGED <<msg_history, msg_index, validated_messages, pending_tool_calls, iterated>>
  /\ UNCHANGED <<buildVars, turnVars, toolVars, engineVars>>

\* ---- convert_to_anthropic_message, build_messages_from_history -------------
\* The content of an AnthropicMessage is written as the sequence of its
\* tool_use and tool_result blocks; its text and image blocks are left out.
ToolUseBlock(id) == [type |-> "tool_use", id |-> id]
ToolResultBlock(id) == [type |-> "tool_result", id |-> id]

\* The tool_use blocks of the content built for an assistant message: one per
\* tool call in the MessageContent::Text arm, none in the
\* MessageContent::Parts arm, which maps the parts alone.
ToolUseBlocksOf(msg) ==
  IF msg.parts THEN <<>>
  ELSE [i \in 1..Len(msg.tool_calls) |-> ToolUseBlock(msg.tool_calls[i])]

ConvertToAnthropicMessage(msg) ==
  [role |-> IF msg.role = "tool" THEN "user" ELSE msg.role,
   blocks |-> IF msg.role = "assistant" THEN ToolUseBlocksOf(msg)
              ELSE IF msg.role = "tool" /\ ~msg.parts /\ msg.tool_call_id # NoToolCallId
                THEN <<ToolResultBlock(msg.tool_call_id)>>
                ELSE <<>>]

\* for msg in &validated_history { if msg.role == "system" { continue; } .. }
RECURSIVE ConvertAll(_)
ConvertAll(msgs) ==
  IF msgs = <<>> THEN <<>>
  ELSE (IF Head(msgs).role = "system" THEN <<>> ELSE <<ConvertToAnthropicMessage(Head(msgs))>>)
         \o ConvertAll(Tail(msgs))

\* build_messages_from_history: the validated history is converted.
Build_Messages ==
  /\ repair_pc = "done"
  /\ repair_pass = 1
  /\ request' = ConvertAll(validated_messages)
  /\ repair_pc' = "built"
  /\ UNCHANGED <<msg_history, msg_index, validated_messages, pending_tool_calls, iterated,
                 repair_pass, first_output>>
  /\ UNCHANGED <<turnVars, toolVars, engineVars>>

\* validate_tool_message_pairs is called on what it has just returned.
Validate_Again ==
  /\ repair_pc = "done"
  /\ repair_pass = 1
  /\ first_output' = validated_messages
  /\ msg_history' = validated_messages
  /\ msg_index' = 0
  /\ validated_messages' = <<>>
  /\ pending_tool_calls' = EmptyMap
  /\ iterated' = {}
  /\ repair_pc' = "messages"
  /\ repair_pass' = 2
  /\ UNCHANGED <<request, turnVars, toolVars, engineVars>>

NextRepair ==
  \/ Validate_Assistant
  \/ Validate_Tool
  \/ Validate_Other
  \/ Validate_EndOfHistory
  \/ \E id \in ToolCallIds : Validate_Unpaired(id)
  \/ Validate_Return
  \/ Build_Messages

SpecRepair == InitRepair /\ [][NextRepair]_vars

NextRepairTwice ==
  \/ NextRepair
  \/ Validate_Again

SpecRepairTwice == InitRepair /\ [][NextRepairTwice]_vars

\* ------------------------------------------ properties of the repaired history
SeqRange(q) == {q[i] : i \in 1..Len(q)}
\* The ids the assistant messages among the first n messages of msgs declare.
DeclaredBefore(msgs, n) ==
  UNION {SeqRange(msgs[j].tool_calls) : j \in {k \in 1..(n - 1) : msgs[k].role = "assistant"}}
Declared(msgs) == DeclaredBefore(msgs, Len(msgs) + 1)
\* The positions of msgs that hold a tool result for call id.
ResultsFor(msgs, id) ==
  {i \in 1..Len(msgs) : msgs[i].role = "tool" /\ msgs[i].tool_call_id = id}
\* The ids of the tool calls of msgs, in the order in which they are declared.
RECURSIVE DeclarationOrder(_)
DeclarationOrder(msgs) ==
  IF msgs = <<>> THEN <<>>
  ELSE (IF Head(msgs).role = "assistant" THEN Head(msgs).tool_calls ELSE <<>>)
         \o DeclarationOrder(Tail(msgs))
\* The rank of the first declaration of id.
DeclarationRank(msgs, id) ==
  CHOOSE i \in 1..Len(DeclarationOrder(msgs)) :
    /\ DeclarationOrder(msgs)[i] = id
    /\ \A j \in 1..(i - 1) : DeclarationOrder(msgs)[j] # id
\* The first n messages of the input without the tool messages that have no
\* id or whose id no earlier assistant message of the input declares.
RECURSIVE WithoutOrphans(_, _)
WithoutOrphans(msgs, n) ==
  IF n = 0 THEN <<>>
  ELSE IF \/ msgs[n].role # "tool"
          \/ msgs[n].tool_call_id \in DeclaredBefore(msgs, n)
         THEN Append(WithoutOrphans(msgs, n - 1), msgs[n])
         ELSE WithoutOrphans(msgs, n - 1)

\* C11 (the claim as stated): in the output of validate_tool_message_pairs
\* every tool call id an assistant message declares has exactly one tool
\* result.
C11_ExactlyOneResultPerCall ==
  repair_pc = "done" =>
    \A id \in Declared(msg_history) :
      Cardinality(ResultsFor(validated_messages, id)) = 1

\* C12 (the claim as stated): in the output of validate_tool_message_pairs
\* the tool results appear in the order in which their calls were declared.
C12_ResultsInDeclarationOrder ==
  repair_pc = "done" =>
    \A i, j \in 1..Len(validated_messages) :
      (/\ i < j
       /\ validated_messages[i].role = "tool"
       /\ validated_messages[j].role = "tool")
        => DeclarationRank(msg_history, validated_messages[i].tool_call_id)
             <= DeclarationRank(msg_history, validated_messages[j].tool_call_id)

\* C13: at every point of validate_tool_message_pairs, and so in its output,
\* every tool message carries an id that an assistant message placed earlier
\* in the output declares; and the original messages of the output are the
\* input without exactly the tool messages that have no id or whose id no
\* earlier assistant message declares.
C13_NoOrphanedToolResult ==
  /\ \A i \in 1..Len(validated_messages) :
       validated_messages[i].role = "tool" =>
         /\ validated_messages[i].tool_call_id # NoToolCallId
         /\ validated_messages[i].tool_call_id \in DeclaredBefore(validated_messages, i)
  /\ SelectSeq(validated_messages, LAMBDA m : ~m.synthetic)
       = WithoutOrphans(msg_history, msg_index)

\* C13 witness: of a result placed before its call, the call, and a result
\* placed after it, the output keeps the call and the second result.
C13_Witness ==
  /\ repair_pc = "done"
  /\ msg_history = <<ToolMessage("t1"), AssistantMessage(<<"t1">>), ToolMessage("t1")>>
  /\ validated_messages = <<AssistantMessage(<<"t1">>), ToolMessage("t1")>>

\* ============================================================================
\* AnthropicProtocol::chat_stream, chat_stream_continue and process_stream
\* (agent/protocols/anthropic.rs)
\* ============================================================================
MaxFrames == 2

\* A byte is written as a string: an ASCII byte as its character, the two
\* bytes of the UTF-8 encoding of U+00E9 as "C3" and "A9".  A decoded char is
\* written the same way: an ASCII char as itself, "U+00E9", "U+FFFD".
NL == "\n"
DataPrefix == <<"d", "a", "t", "a", ":", " ">>
EventPrefix == <<"e", "v", "e", "n", "t", ":", " ">>

\* The JSON payload of a data line is abbreviated to a tag byte and its
\* argument: "T" text (a content_block_delta with a text_delta), "S" id (a
\* content_block_start of a tool_use block), "K" text (a content_block_delta
\* with a thinking_delta), "X" (message_stop).
TextFrame(text) == DataPrefix \o <<"T">> \o text \o <<NL, NL>>
ToolFrame == EventPrefix \o <<"s", NL>> \o DataPrefix \o <<"S", "a">> \o <<NL, NL>>
ThinkingFrame == DataPrefix \o <<"K", "h", "m">> \o <<NL, NL>>
StopFrame == DataPrefix \o <<"X">> \o <<NL, NL>>
CommentFrame == <<":", NL, NL>>
FrameInputs ==
  {TextFrame(<<"H", "i">>), TextFrame(<<"C3", "A9">>), ToolFrame, ThinkingFrame, StopFrame,
   CommentFrame}

RECURSIVE Flatten(_)
Flatten(qs) == IF qs = <<>> THEN <<>> ELSE Head(qs) \o Flatten(Tail(qs))
\* The response bodies tried: up to MaxFrames frames, and the same with the
\* last delimiter cut off (the connection ends inside a frame).
StreamInputs ==
  LET whole == {Flatten(fs) : fs \in UNION {[1..n -> FrameInputs] : n \in 0..MaxFrames}}
  IN  whole \cup {SubSeq(b, 1, Len(b) - 2) : b \in whole \ {<<>>}}

\* String::from_utf8_lossy(&bytes): a truncated or stray byte of a multi-byte
\* sequence becomes U+FFFD.
RECURSIVE FromUtf8Lossy(_)
FromUtf8Lossy(bytes) ==
  IF bytes = <<>> THEN <<>>
  ELSE IF Head(bytes) = "C3"
         THEN IF Len(bytes) >= 2 /\ bytes[2] = "A9"
                THEN <<"U+00E9">> \o FromUtf8Lossy(Tail(Tail(bytes)))
                ELSE <<"U+FFFD">> \o FromUtf8Lossy(Tail(bytes))
  ELSE IF Head(bytes) = "A9"
         THEN <<"U+FFFD">> \o FromUtf8Lossy(Tail(bytes))
         ELSE <<Head(bytes)>> \o FromUtf8Lossy(Tail(bytes))

\* buffer.find("\n\n"): the offset of the first delimiter, -1 for None.
FindDelimiter(text) ==
  LET at == {i \in 1..(Len(text) - 1) : text[i] = NL /\ text[i + 1] = NL}
  IN  IF at = {} THEN -1 ELSE (CHOOSE i \in at : \A j \in at : i <= j) - 1

\* buffer[..pos]
EventBlock(text, pos) == SubSeq(text, 1, pos)

\* `buffer = String::new()` in place of `buffer = buffer[pos + 2..].to_string()`.
RestOfBuffer_Cleared(text, pos) ==
  <<>>

\* buffer[pos + 2..]
RestOfBuffer(text, pos) ==
  SubSeq(text, pos + 3, Len(text))

\* str::lines(): the lines of block, without their "\n".
RECURSIVE Lines(_)
Lines(block) ==
  IF block = <<>> THEN <<>>
  ELSE LET nl == {i \in 1..Len(block) : block[i] = NL}
       IN  IF nl = {} THEN <<block>>
           ELSE LET i == CHOOSE k \in nl : \A j \in nl : k <= j
                IN  <<SubSeq(block, 1, i - 1)>> \o Lines(SubSeq(block, i + 1, Len(block)))

\* line.strip_prefix(pre).is_some()
HasPrefix(line, pre) ==
  Len(line) >= Len(pre) /\ SubSeq(line, 1, Len(pre)) = pre

\* for line in event_block.lines() { event: .. / data: .. }: the value of `data`.
RECURSIVE DataOfLines(_, _)
DataOfLines(lines, data) ==
  IF lines = <<>> THEN data
  ELSE IF ~HasPrefix(Head(lines), EventPrefix) /\ HasPrefix(Head(lines), DataPrefix)
         THEN DataOfLines(Tail(lines), SubSeq(Head(lines), Len(DataPrefix) + 1, Len(Head(lines))))
         ELSE DataOfLines(Tail(lines), data)

DataOf(block) == DataOfLines(Lines(block), <<>>)

\* ---- AnthropicSSEParser (crate::agent::parsers) ----------------------------
\* AnthropicSSEParser::new()
ParserNew == [content |-> <<>>, tools |-> <<>>, thinking |-> <<>>]

\* parser.parse_data(&data): the parser after the payload, and the ParseResult
\* (tool_start and text_delta as a sequence of zero or one value).
ParseData(p, data) ==
  LET nothing == [parser |-> p, tool_start |-> <<>>, text_delta |-> <<>>,
                  thinking_delta |-> <<>>, is_done |-> FALSE]
  IN  IF Head(data) = "T"
        THEN [nothing EXCEPT !.parser = [p EXCEPT !.content = @ \o Tail(data)],
                             !.text_delta = <<Tail(data)>>]
      ELSE IF Head(data) = "K"
        THEN [nothing EXCEPT !.parser = [p EXCEPT !.thinking = @ \o Tail(data)],
                             !.thinking_delta = <<Tail(data)>>]
      ELSE IF Head(data) = "S"
        THEN [nothing EXCEPT !.parser = [p EXCEPT !.tools = Append(@, Tail(data))],
                             !.tool_start = <<Tail(data)>>]
      ELSE IF data = <<"X">>
        THEN [nothing EXCEPT !.is_done = TRUE]
        ELSE nothing

\* get_full_content(), has_tool_calls(), finalize_tool_calls()
GetFullContent(p) == p.content
HasToolCalls(p) == p.tools # <<>>
FinalizeToolCalls(p) == p.tools

\* ---- StreamEvent, StreamResult and the returned Result ---------------------
\* `frame` is not a field of the program's events: it records the number of
\* the parsed frame the event was derived from (0 for Done and Error).
ToolStartEvent(id, f) == [type |-> "ToolStart", arg |-> id, frame |-> f]
TextDeltaEvent(text, f) == [type |-> "TextDelta", arg |-> text, frame |-> f]
DoneEvent == [type |-> "Done", arg |-> <<>>, frame |-> 0]
ErrorEvent(message) == [type |-> "Error", arg |-> message, frame |-> 0]

NoToolCalls == [some |-> FALSE, calls |-> <<>>]
\* reasoning_content: None
NoReasoning == [some |-> FALSE, text |-> <<>>]
NoResult == [content |-> <<>>, tool_calls |-> NoToolCalls, reasoning_content |-> NoReasoning]
StreamResultOf(p) ==
  [content |-> GetFullContent(p),
   tool_calls |-> IF HasToolCalls(p)
                    THEN [some |-> TRUE, calls |-> FinalizeToolCalls(p)]
                    ELSE NoToolCalls,
   reasoning_content |-> NoReasoning]
OkOf(res) == [ok |-> TRUE, res |-> res, err |-> <<>>]
ErrOf(message) == [ok |-> FALSE, res |-> NoResult, err |-> message]

\* format!("请求失败: {}", e), format!("API 错误: {}", status),
\* format!("API 错误 ({}): {}", status, body), format!("流读取错误: {}", e)
RequestFailedMessage == <<"request failed">>
ApiErrorMessage(status) == <<"API error", ToString(status)>>
ApiErrorEventMessage(status, body) == <<"API error", ToString(status), body>>
ReadErrorMessage == <<"stream read error">>

\* status.is_success()
IsSuccess(status) == status \in 200..299

\* What the vendor does with the one request it is sent.
VendorOutcomes ==
  {[kind |-> "transport_error", status |-> 0, body |-> "", body_readable |-> FALSE]}
    \cup {[kind |-> "response", status |-> 500, body |-> "overloaded", body_readable |-> r] :
            r \in BOOLEAN}
    \cup {[kind |-> "response", status |-> 200, body |-> "", body_readable |-> TRUE]}

\* process_stream(response, tx, true) from chat_stream_continue as well.
SendDone_Always == TRUE

\* send_done: true from chat_stream, false from chat_stream_continue.
SendDone == turn_kind = "chat_stream"

\* `tx.send(event).await?` in place of `let _ = tx.send(event).await`.
AbortsOnSendError_Propagated(open) ==
  ~open

\* let _ = tx.send(event).await: a failed send is ignored.
AbortsOnSendError(open) ==
  FALSE

\* Each send spawned as its own task: a later event can overtake.
Deliver_Overtaking(received, e) ==
  <<e>> \o received

\* mpsc: the receiver sees the events in the order they were sent.
Deliver(received, e) ==
  Append(received, e)

\* tx.send(e).await on the sink as it is now.
SendTo(received, open, e) == IF open THEN Deliver(received, e) ELSE received

\* `if result.is_done` removed: the loop goes on after the terminal marker.
ReturnsAtDone_Never(done) ==
  FALSE

\* if result.is_done { .. return Ok(..) }
ReturnsAtDone(done) ==
  done

\* A failed request sent again.
RetryOnFailure_Again ==
  TRUE

\* .send().await.map_err(..)?: the failure is returned, the request not repeated.
RetryOnFailure ==
  FALSE

InitTurn ==
  /\ ToolsInit
  /\ RepairIdle
  /\ EngineIdle
  /\ turn_kind \in {"chat_stream", "chat_stream_continue"}
  /\ vendor \in VendorOutcomes
  /\ byte_stream \in (IF vendor.kind = "response" /\ IsSuccess(vendor.status)
                        THEN StreamInputs ELSE {<<>>})
  /\ read_pos = 0
  /\ buffer = <<>>
  /\ parser = ParserNew
  /\ outbox = <<>>
  /\ is_done = FALSE
  /\ sink_open = TRUE
  /\ events = <<>>
  /\ posts = 0
  /\ outcome = ErrOf(<<>>)
  /\ turn_pc = "post"
  /\ decoded = <<>>
  /\ parsed = <<>>

\* The receiving half of the event channel is dropped.
Sink_Close ==
  /\ turn_pc \notin {"idle", "returned"}
  /\ sink_open
  /\ sink_open' = FALSE
  /\ UNCHANGED <<turn_kind, vendor, byte_stream, read_pos, buffer, parser, outbox, is_done,
                 events, posts, outcome, turn_pc, decoded, parsed>>
  /\ UNCHANGED <<toolVars, repairVars, engineVars>>

\* client.post(&url)...send().await
Turn_Post ==
  /\ turn_pc = "post"
  /\ posts' = posts + 1
  /\ IF vendor.kind = "transport_error"
       THEN IF RetryOnFailure
              THEN UNCHANGED <<outcome, turn_pc>>
              ELSE /\ outcome' = ErrOf(RequestFailedMessage)
                   /\ turn_pc' = "returned"
       ELSE /\ turn_pc' = (IF IsSuccess(vendor.status) THEN "next_chunk" ELSE "api_error")
            /\ UNCHANGED outcome
  /\ UNCHANGED <<turn_kind, vendor, byte_stream, read_pos, buffer, parser, outbox, is_done,
                 sink_open, events, decoded, parsed>>
  /\ UNCHANGED <<toolVars, repairVars, engineVars>>

\* if !status.is_success() { .. }
Turn_ApiError ==
  /\ turn_pc = "api_error"
  /\ LET body == IF vendor.body_readable THEN vendor.body ELSE ""
     IN  events' = SendTo(events, sink_open, ErrorEvent(ApiErrorEventMessage(vendor.status, body)))
  /\ outcome' = ErrOf(ApiErrorMessage(vendor.status))
  /\ turn_pc' = "returned"
  /\ UNCHANGED <<turn_kind, vendor, byte_stream, read_pos, buffer, parser, outbox, is_done,
                 sink_open, posts, decoded, parsed>>
  /\ UNCHANGED <<toolVars, repairVars, engineVars>>

\* stream.next().await = Some(Ok(bytes)): any non-empty run of the bytes left.
Stream_Chunk ==
  /\ turn_pc = "next_chunk"
  /\ \E n \in 1..(Len(byte_stream) - read_pos) :
       LET text == FromUtf8Lossy(SubSeq(byte_stream, read_pos + 1, read_pos + n))
       IN  /\ buffer' = buffer \o text
           /\ decoded' = decoded \o text
           /\ read_pos' = read_pos + n
  /\ turn_pc' = "find_frame"
  /\ UNCHANGED <<turn_kind, vendor, byte_stream, parser, outbox, is_done, sink_open, events,
                 posts, outcome, parsed>>
  /\ UNCHANGED <<toolVars, repairVars, engineVars>>

\* stream.next().await = Some(Err(e))
Stream_ReadError ==
  /\ turn_pc = "next_chunk"
  /\ events' = SendTo(events, sink_open, ErrorEvent(ReadErrorMessage))
  /\ outcome' = ErrOf(ReadErrorMessage)
  /\ turn_pc' = "returned"
  /\ UNCHANGED <<turn_kind, vendor, byte_stream, read_pos, buffer, parser, outbox, is_done,
                 sink_open, posts, decoded, parsed>>
  /\ UNCHANGED <<toolVars, repairVars, engineVars>>

\* stream.next().await = None: the stream ended without a terminal marker.
Stream_End ==
  /\ turn_pc = "next_chunk"
  /\ read_pos = Len(byte_stream)
  /\ events' = (IF SendDone THEN SendTo(events, sink_open, DoneEvent) ELSE events)
  /\ outcome' = OkOf(StreamResultOf(parser))
  /\ turn_pc' = "returned"
  /\ UNCHANGED <<turn_kind, vendor, byte_stream, read_pos, buffer, parser, outbox, is_done,
                 sink_open, posts, decoded, parsed>>
  /\ UNCHANGED <<toolVars, repairVars, engineVars>>

\* buffer.find("\n\n") = None: back to the next chunk.
Stream_NoCompleteFrame ==
  /\ turn_pc = "find_frame"
  /\ FindDelimiter(buffer) = -1
  /\ turn_pc' = "next_chunk"
  /\ UNCHANGED <<turn_kind, vendor, byte_stream, read_pos, buffer, parser, outbox, is_done,
                 sink_open, events, posts, outcome, decoded, parsed>>
  /\ UNCHANGED <<toolVars, repairVars, engineVars>>

\* A frame whose data is empty: `continue`.
Stream_SkipFrame ==
  /\ turn_pc = "find_frame"
  /\ FindDelimiter(buffer) # -1
  /\ LET pos == FindDelimiter(buffer)
     IN  /\ DataOf(EventBlock(buffer, pos)) = <<>>
         /\ buffer' = RestOfBuffer(buffer, pos)
  /\ UNCHANGED <<turn_kind, vendor, byte_stream, read_pos, parser, outbox, is_done,
                 sink_open, events, posts, outcome, turn_pc, decoded, parsed>>
  /\ UNCHANGED <<toolVars, repairVars, engineVars>>

\* A frame with data: parsed, and its events made ready to send.
Stream_ParseFrame ==
  /\ turn_pc = "find_frame"
  /\ FindDelimiter(buffer) # -1
  /\ LET pos == FindDelimiter(buffer)
         data == DataOf(EventBlock(buffer, pos))
         parse_result == ParseData(parser, data)
         f == Len(parsed) + 1
     IN  /\ data # <<>>
         /\ buffer' = RestOfBuffer(buffer, pos)
         /\ parser' = parse_result.parser
         /\ parsed' = Append(parsed, data)
         /\ outbox' = (IF parse_result.tool_start # <<>>
                         THEN <<ToolStartEvent(parse_result.tool_start[1], f)>> ELSE <<>>)
                      \o (IF parse_result.text_delta # <<>>
                            THEN <<TextDeltaEvent(parse_result.text_delta[1], f)>> ELSE <<>>)
         /\ is_done' = parse_result.is_done
  /\ turn_pc' = "send"
  /\ UNCHANGED <<turn_kind, vendor, byte_stream, read_pos, sink_open, events, posts, outcome,
                 decoded>>
  /\ UNCHANGED <<toolVars, repairVars, engineVars>>

\* let _ = tx.send(..).await, for the tool start and then the text delta.
Stream_Send ==
  /\ turn_pc = "send"
  /\ outbox # <<>>
  /\ IF AbortsOnSendError(sink_open)
       THEN /\ outcome' = ErrOf(<<"send failed">>)
            /\ turn_pc' = "returned"
            /\ UNCHANGED <<events, outbox>>
       ELSE /\ events' = SendTo(events, sink_open, Head(outbox))
            /\ outbox' = Tail(outbox)
            /\ UNCHANGED <<outcome, turn_pc>>
  /\ UNCHANGED <<turn_kind, vendor, byte_stream, read_pos, buffer, parser, is_done,
                 sink_open, posts, decoded, parsed>>
  /\ UNCHANGED <<toolVars, repairVars, engineVars>>

\* if result.is_done { .. return Ok(StreamResult { .. }) }
Stream_Done ==
  /\ turn_pc = "send"
  /\ outbox = <<>>
  /\ ReturnsAtDone(is_done)
  /\ events' = (IF SendDone THEN SendTo(events, sink_open, DoneEvent) ELSE events)
  /\ outcome' = OkOf(StreamResultOf(parser))
  /\ turn_pc' = "returned"
  /\ UNCHANGED <<turn_kind, vendor, byte_stream, read_pos, buffer, parser, outbox, is_done,
                 sink_open, posts, decoded, parsed>>
  /\ UNCHANGED <<toolVars, repairVars, engineVars>>

\* Not the terminal marker: the inner loop looks for the next frame.
Stream_NextFrame ==
  /\ turn_pc = "send"
  /\ outbox = <<>>
  /\ ~ReturnsAtDone(is_done)
  /\ turn_pc' = "find_frame"
  /\ UNCHANGED <<turn_kind, vendor, byte_stream, read_pos, buffer, parser, outbox, is_done,
                 sink_open, events, posts, outcome, decoded, parsed>>
  /\ UNCHANGED <<toolVars, repairVars, engineVars>>

NextTurn ==
  \/ Sink_Close
  \/ Turn_Post
  \/ Turn_ApiError
  \/ Stream_Chunk
  \/ Stream_ReadError
  \/ Stream_End
  \/ Stream_NoCompleteFrame
  \/ Stream_SkipFrame
  \/ Stream_ParseFrame
  \/ Stream_Send
  \/ Stream_Done
  \/ Stream_NextFrame

SpecTurn == InitTurn /\ [][NextTurn]_vars

\* ---- What a decoded text holds, read off the text alone --------------------
\* The complete frames of text (each without its delimiter) and the bytes
\* after the last delimiter, by one scan from the left.
RECURSIVE SplitFrames(_, _)
SplitFrames(text, cur) ==
  IF text = <<>> THEN [frames |-> <<>>, rest |-> cur]
  ELSE IF Len(text) >= 2 /\ text[1] = NL /\ text[2] = NL
         THEN LET more == SplitFrames(Tail(Tail(text)), <<>>)
              IN  [frames |-> <<cur>> \o more.frames, rest |-> more.rest]
         ELSE SplitFrames(Tail(text), Append(cur, Head(text)))
FramesOf(text) == SplitFrames(text, <<>>).frames
TrailingOf(text) == SplitFrames(text, <<>>).rest

\* The non-empty data payloads of a sequence of frames, in order.
RECURSIVE Payloads(_)
Payloads(frames) ==
  IF frames = <<>> THEN <<>>
  ELSE (IF DataOf(Head(frames)) = <<>> THEN <<>> ELSE <<DataOf(Head(frames))>>)
         \o Payloads(Tail(frames))

\* The payloads before the first terminal marker.
RECURSIVE UpToStop(_)
UpToStop(payloads) ==
  IF payloads = <<>> \/ Head(payloads) = <<"X">> THEN <<>>
  ELSE <<Head(payloads)>> \o UpToStop(Tail(payloads))

\* The texts of the text deltas among payloads, concatenated in order.
RECURSIVE ConcatText(_)
ConcatText(payloads) ==
  IF payloads = <<>> THEN <<>>
  ELSE (IF Head(Head(payloads)) = "T" THEN Tail(Head(payloads)) ELSE <<>>)
         \o ConcatText(Tail(payloads))

\* One decoder pass over payloads k, k+1, ..: the parser, the events sent and
\* whether the terminal marker was reached.
RECURSIVE RunPayloads(_, _, _, _)
RunPayloads(payloads, p, evs, k) ==
  IF payloads = <<>> THEN [parser |-> p, events |-> evs, done |-> FALSE]
  ELSE LET r == ParseData(p, Head(payloads))
           sent == evs
                     \o (IF r.tool_start # <<>> THEN <<ToolStartEvent(r.tool_start[1], k)>> ELSE <<>>)
                     \o (IF r.text_delta # <<>> THEN <<TextDeltaEvent(r.text_delta[1], k)>> ELSE <<>>)
       IN  IF r.is_done THEN [parser |-> r.parser, events |-> sent, done |-> TRUE]
           ELSE RunPayloads(Tail(payloads), r.parser, sent, k + 1)
\* process_stream on text delivered as one chunk.
Reference(text) == RunPayloads(Payloads(FramesOf(text)), ParserNew, <<>>, 1)

TurnReturned == turn_pc = "returned"
NonSuccessResponse == vendor.kind = "response" /\ ~IsSuccess(vendor.status)

\* C14: whatever the fragmentation of the byte stream into chunks, a call that
\* returns a StreamResult returns the one that delivery of the whole stream as
\* a single chunk gives, and a sink that stayed open has received the same
\* events.
C14_FragmentationIndependent ==
  (TurnReturned /\ outcome.ok) =>
    LET whole == Reference(FromUtf8Lossy(byte_stream))
    IN  /\ outcome.res = StreamResultOf(whole.parser)
        /\ sink_open =>
             events = whole.events \o (IF SendDone THEN <<DoneEvent>> ELSE <<>>)

\* C15: when a chunk has been handled and the terminal marker was not reached,
\* the payloads handed to the parser are those of the complete frames of the
\* text received so far, each once and in order (a frame without data is
\* discarded), and the buffer is the text after the last delimiter and holds
\* no delimiter.
C15_CompleteFramesParsedRestBuffered ==
  turn_pc = "next_chunk" =>
    /\ parsed = Payloads(FramesOf(decoded))
    /\ buffer = TrailingOf(decoded)
    /\ \A i \in 1..(Len(buffer) - 1) : ~(buffer[i] = NL /\ buffer[i + 1] = NL)

C15_Witness ==
  /\ turn_pc = "next_chunk"
  /\ Len(parsed) = 1
  /\ read_pos < Len(byte_stream)
  /\ buffer # <<>>

\* C16: the events the sink has received are in the order of the frames they
\* were derived from, each is the event of its frame, and the frames were
\* parsed in the order of the byte stream.
C16_EventsInStreamOrder ==
  /\ \A i, j \in 1..Len(events) :
       (i < j /\ events[j].frame # 0) =>
         (events[i].frame # 0 /\ events[i].frame <= events[j].frame)
  /\ \A i \in 1..Len(events) :
       events[i].frame # 0 =>
         /\ events[i].frame \in 1..Len(parsed)
         /\ parsed[events[i].frame] =
              <<(IF events[i].type = "ToolStart" THEN "S" ELSE "T")>> \o events[i].arg
  /\ Len(parsed) <= Len(Payloads(FramesOf(decoded)))
  /\ parsed = SubSeq(Payloads(FramesOf(decoded)), 1, Len(parsed))

C16_Witness ==
  /\ Len(events) >= 2
  /\ events[1].type = "ToolStart" /\ events[1].frame = 1
  /\ events[2].type = "TextDelta" /\ events[2].frame = 2

\* Scenario A: a text-delta frame "Hi" followed by a terminal marker.
ScenarioA == TextFrame(<<"H", "i">>) \o StopFrame

\* C17: the content of a returned StreamResult is the concatenation, in order,
\* of the text deltas received before the terminal marker; tool_calls is None
\* when no tool block started before it; Scenario A gives content "Hi" and
\* tool_calls None.
C17_ContentIsConcatenation ==
  (TurnReturned /\ outcome.ok) =>
    LET before == UpToStop(Payloads(FramesOf(decoded)))
    IN  /\ outcome.res.content = ConcatText(before)
        /\ (\A i \in 1..Len(before) : Head(before[i]) # "S") =>
             outcome.res.tool_calls = NoToolCalls
        /\ byte_stream = ScenarioA =>
             outcome.res = [content |-> <<"H", "i">>, tool_calls |-> NoToolCalls,
                            reasoning_content |-> NoReasoning]

C17_Witness ==
  /\ TurnReturned
  /\ byte_stream = ScenarioA
  /\ outcome = OkOf([content |-> <<"H", "i">>, tool_calls |-> NoToolCalls,
                            reasoning_content |-> NoReasoning])

\* C18: after a non-2xx response the call returns an error that carries the
\* status code and the response body, and nothing of the response was read as
\* a stream.
C18_ErrorCarriesStatusAndBody ==
  (TurnReturned /\ NonSuccessResponse) =>
    /\ ~outcome.ok
    /\ \E i \in 1..Len(outcome.err) : outcome.err[i] = ToString(vendor.status)
    /\ \E i \in 1..Len(outcome.err) : outcome.err[i] = vendor.body
    /\ read_pos = 0 /\ decoded = <<>> /\ parsed = <<>>

\* C19: a call issues one POST: none before the request is sent and exactly
\* one from then on, however the call ends.
C19_ExactlyOnePost ==
  /\ turn_pc = "post" => posts = 0
  /\ turn_pc \notin {"idle", "post"} => posts = 1

C19_Witness ==
  /\ TurnReturned
  /\ outcome = ErrOf(ReadErrorMessage)
  /\ 0 < read_pos /\ read_pos < Len(byte_stream)
  /\ posts = 1

\* C20: what a call returns is decided by the vendor's answer and the bytes
\* read alone: it is the result a sink that never fails gives, whether or not
\* the sink was closed on the way.
C20_OutcomeIgnoresSink ==
  TurnReturned =>
    IF vendor.kind = "transport_error" THEN outcome = ErrOf(RequestFailedMessage)
    ELSE IF NonSuccessResponse THEN outcome = ErrOf(ApiErrorMessage(vendor.status))
    ELSE IF ~outcome.ok THEN outcome = ErrOf(ReadErrorMessage)
    ELSE /\ outcome = OkOf(StreamResultOf(Reference(decoded).parser))
         /\ Reference(decoded).done \/ read_pos = Len(byte_stream)

C20_Witness ==
  /\ TurnReturned
  /\ outcome.ok
  /\ ~sink_open
  /\ events # <<>>
  /\ Len(events) < Len(Reference(decoded).events)

\* ============================================================================
\* TerminalTool at the grain of its locks (agent/tools/terminal.rs): every
\* acquisition and every release of pending_commands, executed_commands and
\* app_handle is a step of its own.  "e1" and "e2" run execute, "h" runs
\* handle_response, "s" runs set_app_handle; each starts over when it is done.
\* ============================================================================
Requesters == {"e1", "e2"}

\* The lock and the mode a thread at a `want_` position is about to acquire.
Wanted(th) ==
  CASE lk_pc[th] = "want_retain" -> [lock |-> "executed_commands", write |-> TRUE]
    [] lk_pc[th] = "want_scan" -> [lock |-> "executed_commands", write |-> FALSE]
    [] lk_pc[th] = "want_record" -> [lock |-> "executed_commands", write |-> TRUE]
    [] lk_pc[th] = "want_insert" -> [lock |-> "pending_commands", write |-> TRUE]
    [] lk_pc[th] = "want_cleanup" -> [lock |-> "pending_commands", write |-> TRUE]
    [] lk_pc[th] = "want_remove" -> [lock |-> "pending_commands", write |-> TRUE]
    [] lk_pc[th] = "want_take" -> [lock |-> "pending_commands", write |-> TRUE]
    [] lk_pc[th] = "want_notify" -> [lock |-> "app_handle", write |-> FALSE]
    [] lk_pc[th] = "want_set" -> [lock |-> "app_handle", write |-> TRUE]
    [] OTHER -> [lock |-> "none", write |-> FALSE]

HeldBy(th) == {l \in LockNames : lk_held[l].writer = th \/ th \in lk_held[l].readers}
WaitingWriters(l) == {th \in LockThreads : Wanted(th).lock = l /\ Wanted(th).write}

\* parking_lot::RwLock::write() returns: nobody holds the lock.
CanWrite(l) == lk_held[l] = Unlocked
\* parking_lot::RwLock::read() returns: no writer holds the lock and, when the
\* lock is fair to writers, none is waiting for it.
CanRead(l) ==
  /\ lk_held[l].writer = NoThread
  /\ lk_fair => WaitingWriters(l) = {}

WriteLocked(th, l) == [lk_held EXCEPT ![l] = [writer |-> th, readers |-> {}]]
ReadLocked(th, l) == [lk_held EXCEPT ![l].readers = @ \cup {th}]
\* The guard of th on l is dropped.
Released(held, th, l) ==
  [held EXCEPT ![l] = [writer |-> IF @.writer = th THEN NoThread ELSE @.writer,
                       readers |-> @.readers \ {th}]]

\* `let pending = self.pending_commands.write().remove(..)` inside the
\* `if let`: the guard lives until the end of the `if let`.
GuardDroppedBeforeSend_No ==
  FALSE

\* let pending = { let mut commands = ..write(); commands.remove(..) }: the
\* guard is dropped at the end of the block, before the send.
GuardDroppedBeforeSend ==
  TRUE

InitLocks ==
  /\ ToolsInit
  /\ AwaitIdle
  /\ RepairIdle
  /\ TurnIdle
  /\ LoopIdle
  /\ StopIdle
  /\ lk_held = [l \in LockNames |-> Unlocked]
  /\ lk_pc = [th \in LockThreads |-> "idle"]
  /\ lk_table = {}
  /\ lk_slot = [th \in Requesters |-> "none"]
  /\ lk_handle = FALSE
  /\ lk_target = NoThread
  /\ lk_fair \in BOOLEAN

LkGoto(th, to) == lk_pc' = [lk_pc EXCEPT ![th] = to]
LkRest == UNCHANGED <<toolVars, protocolVars, lk_fair, loopVars, stopVars, awaitVars>>

\* TerminalTool::execute is called.
Lk_Execute(th) ==
  /\ lk_pc[th] = "idle"
  /\ LkGoto(th, "want_retain")
  /\ UNCHANGED <<lk_held, lk_table, lk_slot, lk_handle, lk_target>>
  /\ LkRest

\* A thread at a `want_` position gets its lock.
Lk_Acquire(th) ==
  /\ Wanted(th).lock # "none"
  /\ LET l == Wanted(th).lock
     IN  IF Wanted(th).write
           THEN CanWrite(l) /\ lk_held' = WriteLocked(th, l)
           ELSE CanRead(l) /\ lk_held' = ReadLocked(th, l)
  /\ LkGoto(th, CASE lk_pc[th] = "want_retain" -> "retain"
                  [] lk_pc[th] = "want_scan" -> "scan"
                  [] lk_pc[th] = "want_record" -> "record"
                  [] lk_pc[th] = "want_insert" -> "insert"
                  [] lk_pc[th] = "want_cleanup" -> "cleanup"
                  [] lk_pc[th] = "want_remove" -> "remove"
                  [] lk_pc[th] = "want_take" -> "take"
                  [] lk_pc[th] = "want_notify" -> "notify"
                  [] lk_pc[th] = "want_set" -> "set")
  /\ UNCHANGED <<lk_table, lk_slot, lk_handle, lk_target>>
  /\ LkRest

\* check_duplicate_command: history.retain(..), end of the block.
Lk_Retain(th) ==
  /\ lk_pc[th] = "retain"
  /\ lk_held' = Released(lk_held, th, "executed_commands")
  /\ LkGoto(th, "want_scan")
  /\ UNCHANGED <<lk_table, lk_slot, lk_handle, lk_target>>
  /\ LkRest

\* check_duplicate_command: the scan and the return; execute returns at once
\* when the command is a duplicate.
Lk_Scan(th) ==
  /\ lk_pc[th] = "scan"
  /\ lk_held' = Released(lk_held, th, "executed_commands")
  /\ \E duplicate \in BOOLEAN : LkGoto(th, IF duplicate THEN "idle" ELSE "want_insert")
  /\ UNCHANGED <<lk_table, lk_slot, lk_handle, lk_target>>
  /\ LkRest

\* execute_command: commands.insert(..), end of the block.
Lk_Insert(th) ==
  /\ lk_pc[th] = "insert"
  /\ lk_table' = lk_table \cup {th}
  /\ lk_slot' = [lk_slot EXCEPT ![th] = "open"]
  /\ lk_held' = Released(lk_held, th, "pending_commands")
  /\ LkGoto(th, "want_notify")
  /\ UNCHANGED <<lk_handle, lk_target>>
  /\ LkRest

\* execute_command: the emit under the read guard of app_handle.  On success
\* the guard is dropped at the end of the block; on failure it is still held
\* when pending_commands is locked.
Lk_Notify(th) ==
  /\ lk_pc[th] = "notify"
  /\ \/ /\ lk_handle
        /\ lk_held' = Released(lk_held, th, "app_handle")
        /\ LkGoto(th, "await")
     \/ /\ LkGoto(th, "want_cleanup")
        /\ UNCHANGED lk_held
  /\ UNCHANGED <<lk_table, lk_slot, lk_handle, lk_target>>
  /\ LkRest

\* execute_command: commands.remove(..) and `return Ok(..)` of the two
\* failure branches: both guards are dropped.
Lk_Cleanup(th) ==
  /\ lk_pc[th] = "cleanup"
  /\ lk_table' = lk_table \ {th}
  /\ lk_slot' = [lk_slot EXCEPT ![th] = "none"]
  /\ lk_held' = Released(Released(lk_held, th, "pending_commands"), th, "app_handle")
  /\ LkGoto(th, "want_record")
  /\ UNCHANGED <<lk_handle, lk_target>>
  /\ LkRest

\* execute_command: timeout(timeout_duration, response_rx).await completes,
\* with the response, or with the timeout or a closed channel.
Lk_Await(th) ==
  /\ lk_pc[th] = "await"
  /\ LkGoto(th, IF lk_slot[th] = "filled" THEN "want_record" ELSE "want_remove")
  /\ lk_slot' = [lk_slot EXCEPT ![th] = "none"]
  /\ UNCHANGED <<lk_held, lk_table, lk_handle, lk_target>>
  /\ LkRest

\* execute_command: commands.remove(..) of the Ok(Err(_)) and Err(_) arms.
Lk_Remove(th) ==
  /\ lk_pc[th] = "remove"
  /\ lk_table' = lk_table \ {th}
  /\ lk_held' = Released(lk_held, th, "pending_commands")
  /\ LkGoto(th, "idle")
  /\ UNCHANGED <<lk_slot, lk_handle, lk_target>>
  /\ LkRest

\* record_executed_command
Lk_Record(th) ==
  /\ lk_pc[th] = "record"
  /\ lk_held' = Released(lk_held, th, "executed_commands")
  /\ LkGoto(th, "idle")
  /\ UNCHANGED <<lk_table, lk_slot, lk_handle, lk_target>>
  /\ LkRest

\* TerminalTool::handle_response is called with the request id of `target`.
Lk_HandleResponse(target) ==
  /\ lk_pc["h"] = "idle"
  /\ lk_target' = target
  /\ LkGoto("h", "want_take")
  /\ UNCHANGED <<lk_held, lk_table, lk_slot, lk_handle>>
  /\ LkRest

\* handle_response: commands.remove(&request_id)
Lk_Take ==
  /\ lk_pc["h"] = "take"
  /\ lk_table' = lk_table \ {lk_target}
  /\ IF lk_target \in lk_table
       THEN /\ LkGoto("h", "send")
            /\ lk_held' = (IF GuardDroppedBeforeSend
                             THEN Released(lk_held, "h", "pending_commands") ELSE lk_held)
            /\ UNCHANGED lk_target
       ELSE /\ LkGoto("h", "idle")
            /\ lk_held' = Released(lk_held, "h", "pending_commands")
            /\ lk_target' = NoThread
  /\ UNCHANGED <<lk_slot, lk_handle>>
  /\ LkRest

\* handle_response: pending.response_tx.send(response)
Lk_Send ==
  /\ lk_pc["h"] = "send"
  /\ lk_slot' = [lk_slot EXCEPT ![lk_target] = IF @ = "open" THEN "filled" ELSE @]
  /\ lk_held' = Released(lk_held, "h", "pending_commands")
  /\ lk_target' = NoThread
  /\ LkGoto("h", "idle")
  /\ UNCHANGED <<lk_table, lk_handle>>
  /\ LkRest

\* TerminalTool::set_app_handle is called.
Lk_SetAppHandle ==
  /\ lk_pc["s"] = "idle"
  /\ LkGoto("s", "want_set")
  /\ UNCHANGED <<lk_held, lk_table, lk_slot, lk_handle, lk_target>>
  /\ LkRest

\* set_app_handle: *app_handle = Some(handle), end of the function.
Lk_Set ==
  /\ lk_pc["s"] = "set"
  /\ lk_handle' = TRUE
  /\ lk_held' = Released(lk_held, "s", "app_handle")
  /\ LkGoto("s", "idle")
  /\ UNCHANGED <<lk_table, lk_slot, lk_target>>
  /\ LkRest

NextLocks ==
  \/ \E th \in Requesters :
       \/ Lk_Execute(th)
       \/ Lk_Retain(th)
       \/ Lk_Scan(th)
       \/ Lk_Insert(th)
       \/ Lk_Notify(th)
       \/ Lk_Cleanup(th)
       \/ Lk_Await(th)
       \/ Lk_Remove(th)
       \/ Lk_Record(th)
  \/ \E th \in LockThreads : Lk_Acquire(th)
  \/ \E target \in Requesters : Lk_HandleResponse(target)
  \/ Lk_Take
  \/ Lk_Send
  \/ Lk_SetAppHandle
  \/ Lk_Set

SpecLocks == InitLocks /\ [][NextLocks]_vars

\* th is at a `want_` position and cannot get its lock now.
LockBlocked(th) ==
  /\ Wanted(th).lock # "none"
  /\ IF Wanted(th).write THEN ~CanWrite(Wanted(th).lock) ELSE ~CanRead(Wanted(th).lock)

\* The threads th waits for: the holders of the lock it wants and, for a read
\* of a fair lock, the writers waiting for it.
Blockers(th) ==
  LET l == Wanted(th).lock
  IN  ({lk_held[l].writer} \ {NoThread}) \cup lk_held[l].readers
        \cup (IF ~Wanted(th).write /\ lk_fair THEN WaitingWriters(l) ELSE {})

\* C21: a thread holds the lock of pending_commands only at one insert or
\* remove and the lock of executed_commands only at one retain, scan or push;
\* a requester awaiting its slot and a handle_response sending into a slot
\* hold no lock; and there is no deadlock: no set of threads each of which
\* waits for a lock that only threads of the set can free.
C21_LockDiscipline ==
  /\ \A th \in LockThreads :
       /\ "pending_commands" \in HeldBy(th) => lk_pc[th] \in {"insert", "cleanup", "remove", "take"}
       /\ "executed_commands" \in HeldBy(th) => lk_pc[th] \in {"retain", "scan", "record"}
       /\ lk_pc[th] \in {"await", "send"} => HeldBy(th) = {}
  /\ \A stuck \in SUBSET LockThreads :
       stuck # {} => \E th \in stuck : ~LockBlocked(th) \/ ~(Blockers(th) \subseteq stuck)

C21_Witness ==
  /\ lk_pc["e1"] = "await"
  /\ lk_pc["e2"] = "want_cleanup" /\ LockBlocked("e2")
  /\ lk_pc["h"] = "take"
  /\ lk_pc["s"] = "want_set" /\ LockBlocked("s")

\* ============================================================================
\* ToolLoopEngine (agent/tool_loop): rounds of a model call followed by the
\* execution of the tool calls of its response.
\* ============================================================================
MaxIterations == 2
MaxToolCalls == 2
MaxSignals == 2

LoopTerminalStates == {"Done", "Error", "Cancelled"}
ExceededMessage == "tool loop exceeded max iterations"

\* The tool calls of the n-th model response, k of them, in declaration order.
CallsOf(n, k) == [i \in 1..k |-> [round |-> n, index |-> i, of |-> k]]
\* The result appended for a call: the tool's own, or the synthetic error
\* result of a failed call.
ResultOf(call, ok) == [call |-> call, synthetic_error |-> ~ok]

\* The round limit is never reached.
RoundLimitReached_Never(n) ==
  FALSE

\* The configured maximum number of rounds has been used up.
RoundLimitReached(n) ==
  n >= MaxIterations

\* The signal is polled before model calls only.
PolledBeforeDispatch_No ==
  FALSE

\* The signal is polled before each tool dispatch.
PolledBeforeDispatch ==
  TRUE

\* fail-fast: a failed call ends the execution of its siblings.
FailFast_Set ==
  TRUE

\* The default policy: a failed call does not abort its siblings.
FailFast ==
  FALSE

InitLoop ==
  /\ ToolsInit
  /\ AwaitIdle
  /\ RepairIdle
  /\ TurnIdle
  /\ LocksIdle
  /\ StopIdle
  /\ loop_state = "AwaitingModel"
  /\ loop_error = "none"
  /\ loop_calls = <<>>
  /\ loop_next = 0
  /\ loop_running = {}
  /\ loop_history = <<>>
  /\ cancel_signal = FALSE
  /\ cancel_requests = 0
  /\ model_calls = 0
  /\ dispatched = <<>>
  /\ tool_rounds = 0

LoopRest == UNCHANGED <<toolVars, protocolVars, lockVars, stopVars, awaitVars>>

\* The holder of the cancellation signal raises it.
Loop_Cancel ==
  /\ loop_state # "Idle"
  /\ cancel_requests < MaxSignals
  /\ cancel_signal' = TRUE
  /\ cancel_requests' = cancel_requests + 1
  /\ UNCHANGED <<loop_state, loop_error, loop_calls, loop_next, loop_running, loop_history,
                 model_calls, dispatched, tool_rounds>>
  /\ LoopRest

\* Before a model call the signal is found set: the loop ends Cancelled.
Loop_CancelledBeforeModel ==
  /\ loop_state = "AwaitingModel"
  /\ cancel_signal
  /\ loop_state' = "Cancelled"
  /\ UNCHANGED <<loop_error, loop_calls, loop_next, loop_running, loop_history, cancel_signal,
                 cancel_requests, model_calls, dispatched, tool_rounds>>
  /\ LoopRest

\* Before a model call the round limit is found used up: terminal error.
Loop_Exceeded ==
  /\ loop_state = "AwaitingModel"
  /\ ~cancel_signal
  /\ RoundLimitReached(model_calls)
  /\ loop_state' = "Error"
  /\ loop_error' = ExceededMessage
  /\ UNCHANGED <<loop_calls, loop_next, loop_running, loop_history, cancel_signal,
                 cancel_requests, model_calls, dispatched, tool_rounds>>
  /\ LoopRest

\* A model call (the first or a continuation) whose response holds k tool calls.
Loop_ModelResponds(k) ==
  /\ loop_state = "AwaitingModel"
  /\ ~cancel_signal
  /\ ~RoundLimitReached(model_calls)
  /\ model_calls' = model_calls + 1
  /\ loop_calls' = CallsOf(model_calls + 1, k)
  /\ loop_next' = 1
  /\ loop_state' = (IF k = 0 THEN "Done" ELSE "AwaitingTools")
  /\ UNCHANGED <<loop_error, loop_running, loop_history, cancel_signal, cancel_requests,
                 dispatched, tool_rounds>>
  /\ LoopRest

\* A model call that fails (transport failure, non-2xx): terminal error.
Loop_ModelFails ==
  /\ loop_state = "AwaitingModel"
  /\ ~cancel_signal
  /\ ~RoundLimitReached(model_calls)
  /\ model_calls' = model_calls + 1
  /\ loop_state' = "Error"
  /\ loop_error' = "model call failed"
  /\ UNCHANGED <<loop_calls, loop_next, loop_running, loop_history, cancel_signal,
                 cancel_requests, dispatched, tool_rounds>>
  /\ LoopRest

\* Before a tool dispatch the signal is found set: the loop ends Cancelled.
Loop_CancelledBeforeTool ==
  /\ loop_state = "AwaitingTools"
  /\ loop_running = {}
  /\ loop_next <= Len(loop_calls)
  /\ PolledBeforeDispatch /\ cancel_signal
  /\ loop_state' = "Cancelled"
  /\ UNCHANGED <<loop_error, loop_calls, loop_next, loop_running, loop_history, cancel_signal,
                 cancel_requests, model_calls, dispatched, tool_rounds>>
  /\ LoopRest

\* The next tool call, in declaration order, is dispatched.
Loop_Dispatch ==
  /\ loop_state = "AwaitingTools"
  /\ loop_running = {}
  /\ loop_next <= Len(loop_calls)
  /\ ~(PolledBeforeDispatch /\ cancel_signal)
  /\ loop_running' = {loop_calls[loop_next]}
  /\ dispatched' = Append(dispatched, loop_calls[loop_next])
  /\ UNCHANGED <<loop_state, loop_error, loop_calls, loop_next, loop_history, cancel_signal,
                 cancel_requests, model_calls, tool_rounds>>
  /\ LoopRest

\* The running tool call ends, with success or failure; its result (the
\* synthetic error result for a failure) is appended to the history.
Loop_ToolReturns(ok) ==
  /\ loop_state = "AwaitingTools"
  /\ loop_running # {}
  /\ LET call == loop_calls[loop_next]
     IN  /\ loop_history' = Append(loop_history, ResultOf(call, ok))
         /\ loop_running' = {}
         /\ loop_next' = (IF ~ok /\ FailFast THEN Len(loop_calls) + 1 ELSE loop_next + 1)
  /\ UNCHANGED <<loop_state, loop_error, loop_calls, cancel_signal, cancel_requests,
                 model_calls, dispatched, tool_rounds>>
  /\ LoopRest

\* All calls of the response are served: on to the continuation.
Loop_Continue ==
  /\ loop_state = "AwaitingTools"
  /\ loop_running = {}
  /\ loop_next > Len(loop_calls)
  /\ loop_state' = "AwaitingModel"
  /\ tool_rounds' = tool_rounds + 1
  /\ UNCHANGED <<loop_error, loop_calls, loop_next, loop_running, loop_history, cancel_signal,
                 cancel_requests, model_calls, dispatched>>
  /\ LoopRest

LoopStep ==
  \/ Loop_CancelledBeforeModel
  \/ Loop_Exceeded
  \/ \E k \in 0..MaxToolCalls : Loop_ModelResponds(k)
  \/ Loop_ModelFails
  \/ Loop_CancelledBeforeTool
  \/ Loop_Dispatch
  \/ \E ok \in BOOLEAN : Loop_ToolReturns(ok)
  \/ Loop_Continue

NextLoop ==
  \/ Loop_Cancel
  \/ LoopStep

SpecLoop == InitLoop /\ [][NextLoop]_vars
\* The engine is a running task and every tool call returns: a step of the
\* loop that can be taken is taken.
FairSpecLoop == SpecLoop /\ WF_vars(LoopStep)

LoopTerminal == loop_state \in LoopTerminalStates

\* C22: the loop reaches Done, Error or Cancelled; it never issues more model
\* calls than the configured maximum; the error of the round limit is raised
\* only with the maximum used up; a terminal state is left by no step and
\* followed by no model call.
C22_LoopTerminates ==
  /\ [](model_calls <= MaxIterations)
  /\ [](loop_error = ExceededMessage => (loop_state = "Error" /\ model_calls = MaxIterations))
  /\ [][LoopTerminal => UNCHANGED <<loop_state, loop_error, model_calls, dispatched>>]_vars
  /\ <>LoopTerminal

C22_Witness ==
  /\ loop_state = "Error"
  /\ loop_error = ExceededMessage
  /\ model_calls = MaxIterations
  /\ tool_rounds = MaxIterations

\* C23: no model call is issued and no tool is dispatched by a step that
\* finds the signal set; the loop turns Cancelled only on a set signal, and
\* once Cancelled issues and dispatches nothing more; raising a set signal
\* again changes nothing of the signal or the loop.
C23_CancellationStopsTheLoop ==
  [][/\ (model_calls' # model_calls \/ dispatched' # dispatched) => ~cancel_signal
     /\ (loop_state # "Cancelled" /\ loop_state' = "Cancelled") => cancel_signal
     /\ loop_state = "Cancelled" =>
          UNCHANGED <<loop_state, model_calls, dispatched, loop_history>>
     /\ (cancel_signal /\ cancel_requests' # cancel_requests) =>
          UNCHANGED <<cancel_signal, loop_state, loop_error, loop_calls, loop_next,
                      loop_running, loop_history, model_calls, dispatched, tool_rounds>>
    ]_vars

C23_Witness ==
  /\ loop_state = "Cancelled"
  /\ cancel_requests = 2
  /\ Len(loop_calls) = 2
  /\ Len(dispatched) = 1
  /\ Len(loop_history) = 1

\* The results in the history for the calls of round n.
ResultsOfRound(n) == {i \in 1..Len(loop_history) : loop_history[i].call.round = n}

\* C24: at most one tool call runs at a time; calls are dispatched in
\* declaration order and the history holds one result per finished call in
\* that same order; every round that was followed by a continuation, or is
\* about to be, has a result for each of its k calls; each served round is
\* followed by exactly one model call; Done is reached only on a response
\* without tool calls.
C24_SequentialInDeclarationOrder ==
  /\ Cardinality(loop_running) <= 1
  /\ Len(loop_history) = Len(dispatched) - Cardinality(loop_running)
  /\ \A i \in 1..Len(loop_history) : loop_history[i].call = dispatched[i]
  /\ \A i \in 1..Len(dispatched) :
       IF dispatched[i].index = 1
         THEN i = 1 \/ dispatched[i - 1].round < dispatched[i].round
         ELSE /\ i > 1
              /\ dispatched[i - 1].round = dispatched[i].round
              /\ dispatched[i - 1].index = dispatched[i].index - 1
  /\ \A i \in 1..Len(loop_history) :
       LET call == loop_history[i].call
       IN  (call.round < model_calls \/ loop_state = "AwaitingModel") =>
             Cardinality(ResultsOfRound(call.round)) = call.of
  /\ loop_state = "AwaitingModel" => model_calls = tool_rounds
  /\ loop_state \in {"AwaitingTools", "Done"} => model_calls = tool_rounds + 1
  /\ loop_state = "Done" => loop_calls = <<>>

\* Scenario D, the first call failing.
C24_Witness ==
  /\ loop_state = "Done"
  /\ model_calls = 2
  /\ Len(loop_history) = 2
  /\ loop_history[1].synthetic_error
  /\ ~loop_history[2].synthetic_error

\* ============================================================================
\* general_chat_send_message and general_chat_stop_generation
\* (commands/general_chat_cmd.rs): the per-session stop flag.
\* ============================================================================
MaxChunks == 2
MaxStops == 2
SessionIds == {"s1", "s2"}

\* A generation for session sid is in flight: a call of
\* general_chat_send_message for it has set its flag and has not returned.
GenerationInFlight(sid) ==
  \E g \in Generations : gen_session[g] = sid /\ gen_pc[g] \in {"streaming", "saving", "cleanup"}

\* flags.get(&request.session_id).copied().unwrap_or(false)
StopRequested(flags, sid) ==
  IF sid \in DOMAIN flags THEN flags[sid] ELSE FALSE

InitStop ==
  /\ ToolsInit
  /\ AwaitIdle
  /\ RepairIdle
  /\ TurnIdle
  /\ LocksIdle
  /\ LoopIdle
  /\ StopIdle

StopRest == UNCHANGED <<toolVars, protocolVars, lockVars, loopVars, awaitVars>>

\* general_chat_send_message up to `flags.insert(session_id, false)`.
Gen_Start(g, sid) ==
  /\ gen_pc[g] = "idle"
  /\ stop_flags' = MapInsert(stop_flags, sid, FALSE)
  /\ gen_pc' = [gen_pc EXCEPT ![g] = "streaming"]
  /\ gen_session' = [gen_session EXCEPT ![g] = sid]
  /\ gen_left' = [gen_left EXCEPT ![g] = MaxChunks]
  /\ gen_asked' = [gen_asked EXCEPT ![g] = FALSE]
  /\ UNCHANGED stop_log
  /\ StopRest

\* One round of the chunk loop: the flag is read; the loop breaks when it is
\* set, else one delta is emitted.
Gen_Chunk(g) ==
  /\ gen_pc[g] = "streaming"
  /\ IF gen_left[g] = 0 \/ StopRequested(stop_flags, gen_session[g])
       THEN /\ gen_pc' = [gen_pc EXCEPT ![g] = "saving"]
            /\ UNCHANGED gen_left
       ELSE /\ gen_left' = [gen_left EXCEPT ![g] = @ - 1]
            /\ UNCHANGED gen_pc
  /\ UNCHANGED <<stop_flags, gen_session, stop_log, gen_asked>>
  /\ StopRest

\* The assistant message is saved and the Done event emitted.
Gen_Saved(g) ==
  /\ gen_pc[g] = "saving"
  /\ gen_pc' = [gen_pc EXCEPT ![g] = "cleanup"]
  /\ UNCHANGED <<stop_flags, gen_session, gen_left, stop_log, gen_asked>>
  /\ StopRest

\* db.lock() or GeneralChatDao::add_message fails: `?` returns the error.
Gen_SaveFails(g) ==
  /\ gen_pc[g] = "saving"
  /\ gen_pc' = [gen_pc EXCEPT ![g] = "idle"]
  /\ gen_session' = [gen_session EXCEPT ![g] = "none"]
  /\ gen_left' = [gen_left EXCEPT ![g] = 0]
  /\ UNCHANGED <<stop_flags, stop_log, gen_asked>>
  /\ StopRest

\* flags.remove(&request.session_id); Ok(assistant_message_id)
Gen_Cleanup(g) ==
  /\ gen_pc[g] = "cleanup"
  /\ stop_flags' = MapRemove(stop_flags, gen_session[g])
  /\ gen_pc' = [gen_pc EXCEPT ![g] = "idle"]
  /\ gen_session' = [gen_session EXCEPT ![g] = "none"]
  /\ gen_left' = [gen_left EXCEPT ![g] = 0]
  /\ UNCHANGED <<stop_log, gen_asked>>
  /\ StopRest

\* general_chat_stop_generation(sid)
StopGeneration(sid) ==
  /\ Len(stop_log) < MaxStops
  /\ LET found == sid \in DOMAIN stop_flags
         after == IF found THEN MapInsert(stop_flags, sid, TRUE) ELSE stop_flags
     IN  /\ stop_flags' = after
         /\ stop_log' = Append(stop_log, [session |-> sid, returned |-> found,
                                          before |-> stop_flags, after |-> after,
                                          in_flight |-> GenerationInFlight(sid)])
  /\ gen_asked' = [g \in Generations |->
                     gen_asked[g] \/ (gen_session[g] = sid /\ gen_pc[g] = "streaming")]
  /\ UNCHANGED <<gen_pc, gen_session, gen_left>>
  /\ StopRest

NextStop ==
  \/ \E g \in Generations, sid \in SessionIds : Gen_Start(g, sid)
  \/ \E g \in Generations :
       \/ Gen_Chunk(g)
       \/ Gen_Saved(g)
       \/ Gen_SaveFails(g)
       \/ Gen_Cleanup(g)
  \/ \E sid \in SessionIds : StopGeneration(sid)

SpecStop == InitStop /\ [][NextStop]_vars

\* C25: a stop call for a session with a generation in flight returns true,
\* and a second one that finds STOP_FLAGS as the first left it leaves it so;
\* a stop call for a session with no generation in flight returns false and
\* leaves STOP_FLAGS as it was.
C25_StopIdempotent ==
  /\ \A i \in 1..Len(stop_log) :
       IF stop_log[i].in_flight
         THEN stop_log[i].returned
         ELSE ~stop_log[i].returned /\ stop_log[i].after = stop_log[i].before
  /\ \A i \in 1..(Len(stop_log) - 1) :
       (/\ stop_log[i].session = stop_log[i + 1].session
        /\ stop_log[i].in_flight /\ stop_log[i + 1].in_flight
        /\ stop_log[i + 1].before = stop_log[i].after)
         => stop_log[i + 1].after = stop_log[i].after

\* ============================================================================
\* TerminalTool: which executions feed the duplicate check
\* ============================================================================
\* C26: a duplicate check blocks a call only on a successful record of its
\* command; a call whose command has no successful record in the buffer, or
\* whose last success is not inside the window, goes on to register its
\* request; a call that ends with Timeout or with a closed channel records
\* nothing, and a notification failure records an unsuccessful execution.
C26_OnlySuccessSuppresses ==
  [][\A t \in Tasks :
       /\ (ScanStep(t) /\ BlockedBy(t)) =>
            \E i \in 1..Len(executed_commands) :
              executed_commands[i].command = command[t] /\ executed_commands[i].success
       /\ (/\ ScanStep(t)
           /\ \/ \A i \in 1..Len(executed_commands) :
                   executed_commands[i].command = command[t] => ~executed_commands[i].success
              \/ ~SucceededInsideWindow(command[t], check_now[t]))
            => (pc'[t] = "register" /\ ~BlockedBy(t))
       /\ (pc[t] \in {"arm_closed", "arm_timeout"} /\ pc'[t] = "idle") =>
            /\ result'[t] \in {"Timeout", "ChannelClosed"}
            /\ UNCHANGED <<executed_commands, pushed, last_success>>
       /\ (pc[t] = "record" /\ pc'[t] = "idle" /\ result'[t] = "NotifyFailed") =>
            /\ Len(executed_commands') > 0
            /\ ~executed_commands'[Len(executed_commands')].success
            /\ UNCHANGED last_success]_vars

\* C26 witness: a call passed the duplicate check although a failed execution
\* of its command is on record inside the window.
C26_Witness ==
  \E t \in Tasks :
    /\ pc[t] = "register"
    /\ \E i \in 1..Len(executed_commands) :
         /\ executed_commands[i].command = command[t]
         /\ ~executed_commands[i].success
         /\ now - executed_commands[i].executed_at < DUPLICATE_DETECTION_WINDOW_SECS

\* ============================================================================
\* validate_tool_message_pairs: where the results stand
\* ============================================================================
\* C27: in the repaired history the results of the calls an assistant message
\* declares directly follow that message: each declared id has a tool message
\* after the declaration with only tool messages in between.
C27_ResultsFollowTheirCall ==
  repair_pc = "done" =>
    \A i \in 1..Len(validated_messages) :
      validated_messages[i].role = "assistant" =>
        \A id \in SeqRange(validated_messages[i].tool_calls) :
          \E j \in (i + 1)..Len(validated_messages) :
            /\ validated_messages[j].role = "tool"
            /\ validated_messages[j].tool_call_id = id
            /\ \A k \in (i + 1)..j : validated_messages[k].role = "tool"

\* ============================================================================
\* process_stream: thinking deltas and the terminal events
\* ============================================================================
\* The texts of the thinking deltas among payloads, concatenated in order.
RECURSIVE ConcatThinking(_)
ConcatThinking(payloads) ==
  IF payloads = <<>> THEN <<>>
  ELSE (IF Head(Head(payloads)) = "K" THEN Tail(Head(payloads)) ELSE <<>>)
         \o ConcatThinking(Tail(payloads))
ThinkingEvents == SelectSeq(events, LAMBDA e : e.type = "ThinkingDelta")

\* C28: when the stream of a turn held thinking deltas before its terminal
\* marker, the returned StreamResult has their concatenation as
\* reasoning_content, and a sink that stayed open has received one
\* ThinkingDelta event for each of them.
C28_ThinkingAccumulated ==
  (TurnReturned /\ outcome.ok) =>
    LET before == UpToStop(Payloads(FramesOf(decoded)))
        deltas == SelectSeq(before, LAMBDA d : Head(d) = "K")
    IN  deltas # <<>> =>
          /\ outcome.res.reasoning_content = [some |-> TRUE, text |-> ConcatThinking(before)]
          /\ sink_open =>
               [i \in 1..Len(ThinkingEvents) |-> ThinkingEvents[i].arg]
                 = [i \in 1..Len(deltas) |-> Tail(deltas[i])]

DoneEvents == SelectSeq(events, LAMBDA e : e.type = "Done")
ErrorEvents == SelectSeq(events, LAMBDA e : e.type = "Error")
MarkerParsed == parsed # <<>> /\ parsed[Len(parsed)] = <<"X">>

\* A sink that is open when the turn returns has received every event the
\* turn sent (it can be closed only before the return), so what it holds at
\* that point is what was sent.
TerminalEventsAtReturn ==
  (TurnReturned /\ sink_open) =>
    /\ Len(DoneEvents) <= 1
    /\ ~(DoneEvents # <<>> /\ ErrorEvents # <<>>)
    /\ DoneEvents # <<>> => events[Len(events)] = DoneEvent
    /\ turn_kind = "chat_stream" => (outcome.ok <=> Len(DoneEvents) = 1)
    /\ turn_kind = "chat_stream_continue" => DoneEvents = <<>>

\* C29: the terminal marker is the last payload ever parsed; once it is
\* parsed no event but the Done of chat_stream is sent, the parser is left
\* alone and the call returns Ok with one StreamResult that never changes.
\* chat_stream sends exactly one Done, as its last event, exactly when it
\* returns Ok, and never a Done together with an Error; before the return no
\* Done is sent at all, and chat_stream_continue never sends one.
C29_TerminalEventDiscipline ==
  /\ [](\A i \in 1..Len(parsed) : parsed[i] = <<"X">> => i = Len(parsed))
  /\ []((MarkerParsed /\ TurnReturned) => outcome = OkOf(StreamResultOf(parser)))
  /\ [](~TurnReturned => DoneEvents = <<>>)
  /\ [](turn_kind = "chat_stream_continue" => DoneEvents = <<>>)
  /\ []TerminalEventsAtReturn
  /\ [][MarkerParsed =>
          /\ parsed' = parsed
          /\ parser' = parser
          /\ events' = events \/ (SendDone /\ events' = Append(events, DoneEvent))]_vars
  /\ [][TurnReturned => UNCHANGED <<outcome, events, parsed, parser>>]_vars

\* chat_stream returned Ok at a terminal marker that a complete frame
\* followed in the same chunk: Done is the only event, the frame was left
\* in the buffer.
C29_Witness ==
  /\ TurnReturned
  /\ turn_kind = "chat_stream"
  /\ sink_open
  /\ outcome.ok
  /\ MarkerParsed
  /\ FramesOf(buffer) # <<>>
  /\ events = <<DoneEvent>>

\* ============================================================================
\* Bridge: the slot is registered before the external actor is notified
\* ============================================================================
\* The slot requester t waits on is stored under its request id, in the table
\* of the tool it called.
SlotPresent(t) ==
  IF pc[t] = "await"
    THEN /\ request_id[t] \in DOMAIN pending_commands
         /\ pending_commands[request_id[t]] = rx[t]
    ELSE /\ request_id[t] \in DOMAIN pending_requests
         /\ pending_requests[request_id[t]] = rx[t]
ResponseArrived(t) == chan[rx[t]].val # <<>>

\* C30: a request id is emitted to the frontend only while its slot is in the
\* pending table, the slot having been inserted by an earlier step; from the
\* notification on, as long as the requester waits, either the slot is still
\* in the table under that id or a response has already reached the
\* requester's channel; and the step that takes the slot of a waiting
\* requester out of the table is a handle_response whose response is then in
\* the requester's channel.
C30_SlotRegisteredBeforeNotified ==
  /\ [][\A id \in Ids :
          (id \in emitted' /\ id \notin emitted)
            => /\ id \in AllPending
               /\ registered[id] = 1
               /\ id \in AllPending']_vars
  /\ [](\A t \in Tasks :
          Awaiting(t) => /\ request_id[t] \in emitted
                         /\ SlotPresent(t) \/ ResponseArrived(t))
  /\ [][\A t \in Tasks :
          (Awaiting(t) /\ SlotPresent(t) /\ pc'[t] = pc[t] /\ request_id[t] \notin AllPending')
            => /\ sends'[request_id[t]] = sends[request_id[t]] + 1
               /\ chan'[rx[t]].val # <<>>
               /\ chan'[rx[t]].val[1] \in Responses]_vars

\* C30 witness: at the instant of the notification (no time has passed, the
\* timeout is still whole) a response came in for the emitted id, found the
\* slot and is in the channel of the requester, which still waits.
C30_Witness ==
  \E t \in Tasks :
    /\ pc[t] = "await"
    /\ now = 0
    /\ request_id[t] \in emitted
    /\ request_id[t] \notin AllPending
    /\ sends[request_id[t]] = 1
    /\ ResponseArrived(t)
    /\ hr_log = NothingLogged

\* ============================================================================
\* The request built from a history
\* ============================================================================
BlocksOf(msg, type) == {b \in SeqRange(msg.blocks) : b.type = type}

\* C31: in the request built from a history, every tool_result block refers
\* to a tool_use block with the same id in an earlier message of the request,
\* and no message of the request has role "tool".
C31_ToolResultsReferToToolUse ==
  repair_pc = "built" =>
    \A i \in 1..Len(request) :
      /\ request[i].role # "tool"
      /\ \A b \in BlocksOf(request[i], "tool_result") :
           \E j \in 1..(i - 1) : ToolUseBlock(b.id) \in BlocksOf(request[j], "tool_use")

\* ============================================================================
\* chat_stream / chat_stream_continue: the Error event of a failed call
\* ============================================================================
\* C32: when chat_stream or chat_stream_continue has returned an error, one
\* Error event, and only one, was sent to the sink before the return (read
\* off a sink that is open at the return, which has received every event
\* sent).
C32_ErrorReturnSendsOneErrorEvent ==
  (TurnReturned /\ ~outcome.ok /\ sink_open) => Len(ErrorEvents) = 1

\* ============================================================================
\* TerminalTool: a response and the expiry of the timeout, at the grain of the
\* polls of `timeout(timeout_duration, response_rx).await`
\* (agent/tools/terminal.rs)
\* ============================================================================
\* One request that is registered and notified, and the calls of
\* handle_response made for it on other threads of the runtime.  A poll of the
\* Timeout future polls response_rx first and the timer second; when the
\* await completes the future is dropped, and response_rx with it.  A
\* oneshot send succeeds when the receiver is not closed at that moment; a
\* value that is in the channel when the receiver is dropped is dropped too.
ResponseInputs == {"r1", "r2"}
ResponseOutcome(r) == [kind |-> "response", resp |-> r]
TimeoutOutcome == [kind |-> "Timeout", resp |-> NoResponseYet]

InitAwait ==
  /\ ToolsInit
  /\ RepairIdle
  /\ TurnIdle
  /\ LocksIdle
  /\ LoopIdle
  /\ StopIdle
  /\ aw_pc = "poll_rx"
  /\ aw_table = TRUE
  /\ aw_chan = [val |-> <<>>, rx_open |-> TRUE]
  /\ aw_elapsed = FALSE
  /\ aw_result = NoOutcome
  /\ aw_hpc = [h \in HandlerCalls |-> "idle"]
  /\ aw_hresp = [h \in HandlerCalls |-> NoResponseYet]
  /\ aw_hsent = [h \in HandlerCalls |-> "none"]

AwRest == UNCHANGED <<toolVars, protocolVars, lockVars, loopVars, stopVars>>

\* The deadline passes.
Aw_TimerFires ==
  /\ ~aw_elapsed
  /\ aw_pc # "returned"
  /\ aw_elapsed' = TRUE
  /\ UNCHANGED <<aw_pc, aw_table, aw_chan, aw_result, aw_hpc, aw_hresp, aw_hsent>>
  /\ AwRest

\* The parked task is woken by the sender or by the timer.
Aw_Wake ==
  /\ aw_pc = "parked"
  /\ aw_chan.val # <<>> \/ aw_elapsed
  /\ aw_pc' = "poll_rx"
  /\ UNCHANGED <<aw_table, aw_chan, aw_elapsed, aw_result, aw_hpc, aw_hresp, aw_hsent>>
  /\ AwRest

\* Timeout::poll, first half: response_rx is polled.  With a value the await
\* completes with Ok(Ok(response)) and execute_command returns it.
Aw_PollRx ==
  /\ aw_pc = "poll_rx"
  /\ IF aw_chan.val # <<>>
       THEN /\ aw_result' = ResponseOutcome(aw_chan.val[1])
            /\ aw_chan' = [val |-> <<>>, rx_open |-> FALSE]
            /\ aw_pc' = "returned"
       ELSE /\ aw_pc' = "poll_timer"
            /\ UNCHANGED <<aw_result, aw_chan>>
  /\ UNCHANGED <<aw_table, aw_elapsed, aw_hpc, aw_hresp, aw_hsent>>
  /\ AwRest

\* Timeout::poll, second half: the timer is polled.
Aw_PollTimer ==
  /\ aw_pc = "poll_timer"
  /\ aw_pc' = (IF aw_elapsed THEN "drop_rx" ELSE "parked")
  /\ UNCHANGED <<aw_table, aw_chan, aw_elapsed, aw_result, aw_hpc, aw_hresp, aw_hsent>>
  /\ AwRest

\* The await completed with Err(Elapsed): the Timeout future is dropped, and
\* response_rx, with whatever it holds, with it.
Aw_DropRx ==
  /\ aw_pc = "drop_rx"
  /\ aw_chan' = [val |-> <<>>, rx_open |-> FALSE]
  /\ aw_pc' = "arm_timeout"
  /\ UNCHANGED <<aw_table, aw_elapsed, aw_result, aw_hpc, aw_hresp, aw_hsent>>
  /\ AwRest

\* The Err(_) arm: commands.remove(&request_id), Err(ToolError::Timeout).
Aw_Remove ==
  /\ aw_pc = "arm_timeout"
  /\ aw_table' = FALSE
  /\ aw_result' = TimeoutOutcome
  /\ aw_pc' = "returned"
  /\ UNCHANGED <<aw_chan, aw_elapsed, aw_hpc, aw_hresp, aw_hsent>>
  /\ AwRest

\* handle_response: let pending = { commands.remove(&request_id) }
Aw_Take(h, r) ==
  /\ aw_hpc[h] = "idle"
  /\ aw_hresp' = [aw_hresp EXCEPT ![h] = [call |-> h, body |-> r]]
  /\ IF aw_table
       THEN /\ aw_table' = FALSE
            /\ aw_hpc' = [aw_hpc EXCEPT ![h] = "send"]
            /\ UNCHANGED aw_hsent
       ELSE /\ aw_hsent' = [aw_hsent EXCEPT ![h] = "not_found"]
            /\ aw_hpc' = [aw_hpc EXCEPT ![h] = "done"]
            /\ UNCHANGED aw_table
  /\ UNCHANGED <<aw_pc, aw_chan, aw_elapsed, aw_result>>
  /\ AwRest

\* handle_response: pending.response_tx.send(response)
Aw_Send(h) ==
  /\ aw_hpc[h] = "send"
  /\ IF aw_chan.rx_open
       THEN /\ aw_chan' = [aw_chan EXCEPT !.val = <<aw_hresp[h]>>]
            /\ aw_hsent' = [aw_hsent EXCEPT ![h] = "ok"]
       ELSE /\ aw_hsent' = [aw_hsent EXCEPT ![h] = "failed"]
            /\ UNCHANGED aw_chan
  /\ aw_hpc' = [aw_hpc EXCEPT ![h] = "done"]
  /\ UNCHANGED <<aw_pc, aw_table, aw_elapsed, aw_result, aw_hresp>>
  /\ AwRest

NextAwait ==
  \/ Aw_TimerFires
  \/ Aw_Wake
  \/ Aw_PollRx
  \/ Aw_PollTimer
  \/ Aw_DropRx
  \/ Aw_Remove
  \/ \E h \in HandlerCalls, r \in ResponseInputs : Aw_Take(h, r)
  \/ \E h \in HandlerCalls : Aw_Send(h)

SpecAwait == InitAwait /\ [][NextAwait]_vars

\* C33: once the requester has returned and a handle_response for its request
\* has finished, the send of that handle_response succeeded exactly when the
\* requester returned the response it carried.
C33_FulfilmentAndTimeoutAgree ==
  \A h \in HandlerCalls :
    (aw_pc = "returned" /\ aw_hpc[h] = "done")
      => (aw_hsent[h] = "ok" <=> aw_result = ResponseOutcome(aw_hresp[h]))

\* ============================================================================
\* TerminalTool: rejected commands, and concurrent calls with one command text
\* ============================================================================
\* C34: the record that execute pushes for a response with rejected = true is
\* not a successful one, so a command the user rejected does not block a
\* later call with the same text.
C34_RejectedNeverRecordedAsSuccess ==
  [][\A t \in Tasks :
       (pc[t] = "record" /\ pc'[t] = "idle" /\ response[t][1].rejected)
         => /\ executed_commands' # <<>>
            /\ executed_commands'[Len(executed_commands')].command = command[t]
            /\ ~executed_commands'[Len(executed_commands')].success]_vars

\* C35: two calls of execute that run at the same time with the same command
\* text are not both notified to the frontend.
C35_ConcurrentDuplicatesNotifiedOnce ==
  \A t, u \in Tasks :
    (/\ t # u
     /\ pc[t] = "await" /\ pc[u] = "await"
     /\ command[t] = command[u])
      => ~(request_id[t] \in emitted /\ request_id[u] \in emitted)

\* ============================================================================
\* validate_tool_message_pairs: algebraic properties
\* ============================================================================
\* C36: validate_tool_message_pairs applied to what it returned for a history
\* returns the same sequence of messages: nothing is added, nothing dropped.
C36_RepairIdempotent ==
  (repair_pass = 2 /\ repair_pc = "done") => validated_messages = first_output

\* C36 witness: the first call dropped an orphan and added a default result;
\* the second call, on that output, has returned.
C36_Witness ==
  /\ repair_pass = 2
  /\ repair_pc = "done"
  /\ \E i \in 1..Len(first_output) : first_output[i].synthetic
  /\ Len(SelectSeq(first_output, LAMBDA m : ~m.synthetic)) < Len(first_output)
  /\ \E i \in 1..Len(first_output) : first_output[i].role = "user"
  /\ Len(first_output) = MaxHistoryLen

NonToolMessages(msgs) == SelectSeq(msgs, LAMBDA m : m.role # "tool")

\* C37: at every point of validate_tool_message_pairs the messages of the
\* output whose role is not "tool" are the messages of that kind among the
\* input messages handled so far, unchanged and in the same order, so in the
\* end those of the whole input; and the input history is never modified.
C37_NonToolMessagesUntouched ==
  /\ [](repair_pc \in {"messages", "unpaired", "done", "built"}
          => NonToolMessages(validated_messages)
               = NonToolMessages(SubSeq(msg_history, 1, msg_index)))
  /\ [](repair_pc \in {"unpaired", "done", "built"} => msg_index = Len(msg_history))
  /\ [][msg_history' = msg_history]_vars

\* C37 witness: the call returned for an input of an assistant message with a
\* tool call, an orphaned result and a user message; the output is not the
\* input, and its non-tool messages are the two of the input.
C37_Witness ==
  /\ repair_pc = "done"
  /\ msg_history = <<AssistantMessage(<<"t1">>), ToolMessage("t2"), UserMessage>>
  /\ validated_messages = <<AssistantMessage(<<"t1">>), UserMessage, DefaultResult("t1")>>

\* ============================================================================
\* general_chat_cmd: the stop flag and the generations of a session
\* ============================================================================
\* C38: a session of which no generation is in flight has no entry in
\* STOP_FLAGS, and a stop call for it returned false.
C38_FlagNeverOutlivesGeneration ==
  /\ \A sid \in SessionIds : ~GenerationInFlight(sid) => sid \notin DOMAIN stop_flags
  /\ \A i \in 1..Len(stop_log) : ~stop_log[i].in_flight => ~stop_log[i].returned

\* C39: a stop call made for a session while a generation of it is in flight
\* returns true, and a generation in its chunk loop for whose session a stop
\* was requested emits no further delta: its next flag check ends the loop.
C39_StopNeverLost ==
  /\ [](\A i \in 1..Len(stop_log) : stop_log[i].in_flight => stop_log[i].returned)
  /\ [][\A g \in Generations :
          (gen_pc[g] = "streaming" /\ gen_asked[g])
            => (gen_left'[g] = gen_left[g]
                  /\ (gen_pc'[g] # gen_pc[g] => gen_pc'[g] = "saving"))]_vars
====
